---- MODULE Spec2Model ----
(***************************************************************************)
(* A model of go-llm: the provider registry and model-identifier           *)
(* resolution (package llm), the direct entry points Completion and        *)
(* CompletionStream, the provider adapters as far as the registry and the  *)
(* router see them, and the task router (Route / RouteStream).             *)
(*                                                                         *)
(* Strings that take part in identifier parsing are sequences of tokens:   *)
(* the token "/" is the separator byte, every other token is a maximal     *)
(* run of non-separator bytes.  "openai/gpt-4o" is <<"openai","/","gpt-4o">>*)
(* and "" is <<>>.  Two segment tokens are never adjacent, so two token    *)
(* sequences are equal exactly when the strings are.                       *)
(***************************************************************************)
EXTENDS Integers, Sequences, FiniteSets, TLC

VARIABLES
    registeredProviders,  \* llm.registeredProviders: map name -> Provider
    providerMu,           \* llm.providerMu: the sync.RWMutex guarding the map
    goroutines,           \* concurrent callers of the registry, each with its position
    history,              \* what the registry has been asked to hold (observer state)
    direct,               \* one direct llm.Completion / llm.CompletionStream call
    router,               \* the *router.Router handed to Route / RouteStream
    routeCall,            \* one Route / RouteStream call and what it has attempted
    stream                \* the stream handle the caller received, and its Recv results

vars == <<registeredProviders, providerMu, goroutines, history, direct, router,
          routeCall, stream>>

----------------------------------------------------------------------------
(* Bounds of the model *)

MaxIdLen == 5       \* longest qualified model id, in tokens
MaxOpts == 2        \* most CompletionOptions passed to one call
MaxRoutes == 2      \* most ModelRoutes given to NewRouter
MaxPriority == 2    \* priorities are drawn from 1..MaxPriority
MaxRecv == 2        \* most Recv calls made on one stream
MaxGoroutines == 2  \* concurrent callers of the registry
MaxLines == 3       \* most lines a stream body holds (the example stream apart)
MaxCloses == 2      \* most Close calls made on one stream
MaxMsgs == 2        \* most messages of a conversation whose translation is looked at
MaxSent == 2        \* most HTTP requests counted between SupportsModel calls
MaxBytes == 4       \* most bytes of a body read byte by byte
MaxStartLines == 4  \* most lines of a stream whose start events are looked at
MaxCompleters == 2  \* most goroutines that call Completion at the same time

----------------------------------------------------------------------------
(* Strings *)

Slash == "/"
Segments == {"openai", "mock", "unknownvendor", "gpt-4o", "x"}
Tokens == Segments \cup {Slash}

\* no two adjacent segment tokens: the sequence denotes one string
IsString(s) == \A i \in 1..(Len(s) - 1) : s[i] = Slash \/ s[i + 1] = Slash

StringsUpTo(n) == {s \in UNION {[1..k -> Tokens] : k \in 0..n} : IsString(s)}

\* index of the first separator, 0 when there is none
FirstSlash(s) ==
    IF \E i \in 1..Len(s) : s[i] = Slash
    THEN CHOOSE i \in 1..Len(s) : s[i] = Slash /\ \A j \in 1..(i - 1) : s[j] # Slash
    ELSE 0

----------------------------------------------------------------------------
(* Errors: the code builds them with fmt.Errorf; the kind is the message *)

NoError == "nil"
ErrInvalidIdentifier == "invalid model identifier"
ErrProviderNotFound == "provider not found"
ErrModelUnsupported == "model not supported by provider"
ErrAPIKeyNotSet == "API key not set"
ErrSendRequest == "failed to send request"
ErrAPIStatus == "API returned error"
ErrParseResponse == "failed to parse response"
ErrReadBody == "failed to read response body"

ResolutionErrors == {ErrInvalidIdentifier, ErrProviderNotFound, ErrModelUnsupported}

----------------------------------------------------------------------------
(* Providers *)

\* a nil *CompletionResponse, a nil ResponseStream, a nil Provider
NilResponse == [nil |-> "response"]
NilStream == [nil |-> "stream"]
NilProvider == [nil |-> "provider"]

\* optional request fields are pointers: <<>> is nil, <<v>> points at v
Nil == <<>>
Ptr(v) == <<v>>

\* the allow-lists the constructors build
OpenAIModelList ==
    {<<m>> : m \in {"gpt-4", "gpt-4.1", "gpt-4.1-2025-04-14", "gpt-4.1-mini",
        "gpt-4.1-mini-2025-04-14", "gpt-4.1-nano", "gpt-4.1-nano-2025-04-14",
        "gpt-4o", "gpt-4.5-preview", "gpt-4.5-preview-2025-02-27", "gpt-4o-mini",
        "gpt-4o-mini-2024-07-18", "o1", "o1-mini", "o3-mini", "o3-mini-2025-01-31",
        "o4-mini", "o4-mini-2025-04-16", "o1-mini-2024-09-12", "o1-preview",
        "o1-preview-2024-09-12", "o1-2024-12-17", "chatgpt-4o-latest",
        "gpt-4o-2024-05-13", "gpt-4o-2024-08-06", "gpt-4o-2024-11-20",
        "gpt-4-turbo-preview", "gpt-4-0613", "gpt-4-turbo", "gpt-4-turbo-2024-04-09",
        "gpt-4-1106-preview", "gpt-4-0125-preview", "gpt-3.5-turbo",
        "gpt-3.5-turbo-1106", "gpt-3.5-turbo-0125", "gpt-3.5-turbo-16k"}}

AnthropicModelList ==
    {<<m>> : m \in {"claude-3-7-sonnet-20250219", "claude-3-opus-20240229",
        "claude-3-sonnet-20240229", "claude-3-haiku-20240307", "claude-2.1",
        "claude-2.0", "claude-instant-1.2"}}

GoogleModelList ==
    {<<m>> : m \in {"gemini-1.5-pro", "gemini-1.5-flash", "gemini-2.0-pro",
        "gemini-2.0-flash"}}

\* llm.Provider is an interface: any implementation can be registered.  "mock"
\* is one whose model names contain the separator, as aggregator names do.
MockModelList == {<<"x">>, <<"x", "/", "gpt-4o">>}

Vendors == {"openai", "anthropic", "google", "mock"}
APIKeys == {"", "sk"}

\* modelList: []string{...} in the constructor of each adapter
modelList(vendor) ==
    CASE vendor = "openai" -> OpenAIModelList
      [] vendor = "anthropic" -> AnthropicModelList
      [] vendor = "google" -> GoogleModelList
      [] OTHER -> MockModelList

\* a provider instance: what NewProviderWithKey(apiKey) returns
NewProviderWithKey(vendor, apiKey) ==
    [vendor |-> vendor, apiKey |-> apiKey, modelList |-> modelList(vendor)]

Providers == {NewProviderWithKey(v, k) : v \in Vendors, k \in APIKeys}

Name(p) == <<p.vendor>>

\* mutant of SupportsModel: a provider without a key supports nothing
SupportsModelWhenKeyed(p, model) == p.apiKey # "" /\ model \in p.modelList

\* for _, m := range p.modelList { if m == model { return true } }
SupportsModel(p, model) == model \in p.modelList

----------------------------------------------------------------------------
(* Canonical request and options (package llm) *)

Message(role, content) == [Role |-> role, Content |-> content]

\* the conversation every call of the model sends
Messages == <<Message("user", "Hello, how are you?")>>

\* &CompletionRequest{Model: modelName, Messages: messages [, Stream: true]}
NewRequest(modelName, messages, streaming) ==
    [Model |-> modelName, Messages |-> messages, Temperature |-> Nil,
     MaxTokens |-> Nil, TopP |-> Nil, User |-> "", Stream |-> streaming]

WithTemperature(temp) == [option |-> "WithTemperature", arg |-> temp]
WithMaxTokens(tokens) == [option |-> "WithMaxTokens", arg |-> tokens]
WithTopP(topP) == [option |-> "WithTopP", arg |-> topP]
WithUser(user) == [option |-> "WithUser", arg |-> user]

\* mutant of ApplyOption: an option leaves a field alone that an earlier
\* option has set
ApplyOptionFirstWins(req, opt) ==
    CASE opt.option = "WithTemperature" ->
            IF req.Temperature = Nil THEN [req EXCEPT !.Temperature = Ptr(opt.arg)] ELSE req
      [] opt.option = "WithMaxTokens" ->
            IF req.MaxTokens = Nil THEN [req EXCEPT !.MaxTokens = Ptr(opt.arg)] ELSE req
      [] opt.option = "WithTopP" ->
            IF req.TopP = Nil THEN [req EXCEPT !.TopP = Ptr(opt.arg)] ELSE req
      [] opt.option = "WithUser" ->
            IF req.User = "" THEN [req EXCEPT !.User = opt.arg] ELSE req

\* opt(req): the closure each With... returns.  Floats are in tenths.
ApplyOption(req, opt) ==
    CASE opt.option = "WithTemperature" -> [req EXCEPT !.Temperature = Ptr(opt.arg)]
      [] opt.option = "WithMaxTokens" -> [req EXCEPT !.MaxTokens = Ptr(opt.arg)]
      [] opt.option = "WithTopP" -> [req EXCEPT !.TopP = Ptr(opt.arg)]
      [] opt.option = "WithUser" -> [req EXCEPT !.User = opt.arg]

\* for _, opt := range opts { opt(req) }
RECURSIVE ApplyOptions(_, _)
ApplyOptions(req, opts) ==
    IF opts = <<>> THEN req
    ELSE ApplyOptions(ApplyOption(req, Head(opts)), Tail(opts))

\* the options the model's callers pass
OptionValues == {WithTemperature(7), WithMaxTokens(100)}
OptionLists == UNION {[1..k -> OptionValues] : k \in 0..MaxOpts}

----------------------------------------------------------------------------
(* Provider adapters, as the registry and the router see them.             *)
(* net is what the network does to the one HTTP exchange of the call:      *)
(*   status "ok"        200 and a body that parses,                        *)
(*          "transport" client.Do fails,                                   *)
(*          "status"    a status other than 200,                           *)
(*          "parse"     200 and a body that is not the vendor's JSON,      *)
(*          "read"      reading the body fails (io.ReadAll);               *)
(*   id is the id the vendor put in the body.                              *)

NetStatuses == {"ok", "transport", "status", "parse"}

\* the usage object of a response body: the counts the vendor reports, by
\* canonical field; a field the body leaves out is outside the domain
NoUsage == <<>>

\* json.Unmarshal into an int field: the number when the field is present,
\* the zero value when it is not
IntField(object, field) == IF field \in DOMAIN object THEN object[field] ELSE 0

\* the HTTP exchange: its outcome and, for a 200 that parses, the id, the
\* number of choices (choices / content blocks / candidates) and the usage
NetBody(status, id, choices, usage) ==
    [status |-> status, id |-> id, choices |-> choices, usage |-> usage]

\* an exchange whose body holds one choice and reports no usage
Net(status, id) == NetBody(status, id, 1, NoUsage)

ErrNoCandidates == "Google API returned no completion candidates"

\* fmt.Sprintf("google-%d", time.Now().UnixNano())
GoogleID == "google-<UnixNano>"

\* llm.CompletionUsage{...} as each adapter fills it from the parsed body:
\* openai and google copy the vendor's total, anthropic (whose body has no
\* total) adds input and output
Usage(p, body) ==
    [PromptTokens |-> IntField(body.usage, "prompt"),
     CompletionTokens |-> IntField(body.usage, "completion"),
     TotalTokens |->
        IF p.vendor = "anthropic"
        THEN IntField(body.usage, "prompt") + IntField(body.usage, "completion")
        ELSE IntField(body.usage, "total")]

\* the number of entries of llmResp.Choices: anthropic always builds one
Choices(p, body) == IF p.vendor = "anthropic" THEN 1 ELSE body.choices

\* the llm.CompletionResponse built from a parsed 200 body
Response(p, body) ==
    [ID |-> IF p.vendor = "google" THEN GoogleID ELSE body.id,
     Provider |-> Name(p),
     Usage |-> Usage(p, body),
     Choices |-> Choices(p, body)]

\* the outcome of an adapter call: the result, the error, and the number of
\* HTTP requests built and sent
AdapterFailure(err, built, sent) ==
    [resp |-> NilResponse, err |-> err, built |-> built, sent |-> sent]

\* mutants of Provider.Completion: the credential is not checked before the
\* request goes out; a failed exchange is sent a second time and an
\* unparsable body is answered with an empty response
ProviderCompletionKeyUnchecked(p, req, net) ==
    IF net.status = "transport" THEN AdapterFailure(ErrSendRequest, 1, 1)
    ELSE IF net.status = "status" \/ p.apiKey = "" THEN AdapterFailure(ErrAPIStatus, 1, 1)
    ELSE IF net.status = "parse" THEN AdapterFailure(ErrParseResponse, 1, 1)
    ELSE [resp |-> Response(p, net), err |-> NoError, built |-> 1, sent |-> 1]

ProviderCompletionRetrying(p, req, net) ==
    IF p.apiKey = "" THEN AdapterFailure(ErrAPIKeyNotSet, 0, 0)
    ELSE IF net.status = "transport" THEN AdapterFailure(ErrSendRequest, 2, 2)
    ELSE IF net.status = "status" THEN AdapterFailure(ErrAPIStatus, 2, 2)
    ELSE IF net.status = "parse"
    THEN [resp |-> Response(p, NetBody("ok", "", 0, NoUsage)), err |-> NoError,
          built |-> 1, sent |-> 1]
    ELSE [resp |-> Response(p, net), err |-> NoError, built |-> 1, sent |-> 1]

\* Provider.Completion: key check, one request built and sent, body read,
\* status check, parse, translation
ProviderCompletion(p, req, net) ==
    IF p.apiKey = "" THEN AdapterFailure(ErrAPIKeyNotSet, 0, 0)
    ELSE IF net.status = "transport" THEN AdapterFailure(ErrSendRequest, 1, 1)
    ELSE IF net.status = "read" THEN AdapterFailure(ErrReadBody, 1, 1)
    ELSE IF net.status = "status" THEN AdapterFailure(ErrAPIStatus, 1, 1)
    ELSE IF net.status = "parse" THEN AdapterFailure(ErrParseResponse, 1, 1)
    ELSE IF p.vendor = "google" /\ net.choices = 0
    THEN AdapterFailure(ErrNoCandidates, 1, 1)
    ELSE [resp |-> Response(p, net), err |-> NoError, built |-> 1, sent |-> 1]

\* mutant of Provider.CompletionStream: every adapter's stream carries the
\* provider name of the adapter it was copied from
ProviderCompletionStreamStampOpenAI(p, req, net) ==
    IF p.apiKey = ""
    THEN [stream |-> NilStream, err |-> ErrAPIKeyNotSet, built |-> 0, sent |-> 0]
    ELSE IF net.status = "transport"
    THEN [stream |-> NilStream, err |-> ErrSendRequest, built |-> 1, sent |-> 1]
    ELSE IF net.status = "status"
    THEN [stream |-> NilStream, err |-> ErrAPIStatus, built |-> 1, sent |-> 1]
    ELSE [stream |-> [provider |-> <<"openai">>, conn |-> net.id,
                      streamFinished |-> FALSE],
          err |-> NoError, built |-> 1, sent |-> 1]

\* Provider.CompletionStream: the body is not read when the stream is opened,
\* so a 200 whose body will not parse still yields a stream handle
ProviderCompletionStream(p, req, net) ==
    IF p.apiKey = ""
    THEN [stream |-> NilStream, err |-> ErrAPIKeyNotSet, built |-> 0, sent |-> 0]
    ELSE IF net.status = "transport"
    THEN [stream |-> NilStream, err |-> ErrSendRequest, built |-> 1, sent |-> 1]
    ELSE IF net.status = "status"
    THEN [stream |-> NilStream, err |-> ErrAPIStatus, built |-> 1, sent |-> 1]
    ELSE [stream |-> [provider |-> Name(p), conn |-> net.id, streamFinished |-> FALSE],
          err |-> NoError, built |-> 1, sent |-> 1]

----------------------------------------------------------------------------
(* Provider registry and model resolution (package llm) *)

\* registeredProviders = make(map[string]Provider)
EmptyRegistry == <<>>

\* registeredProviders[name] = provider
MapStoreIfAbsent(m, name, provider) ==
    IF name \in DOMAIN m THEN m
    ELSE [k \in DOMAIN m \cup {name} |-> IF k = name THEN provider ELSE m[k]]

MapStore(m, name, provider) ==
    [k \in DOMAIN m \cup {name} |-> IF k = name THEN provider ELSE m[k]]

\* provider, ok := registeredProviders[name]
MapLoad(m, name) ==
    IF name \in DOMAIN m THEN [provider |-> m[name], ok |-> TRUE]
    ELSE [provider |-> NilProvider, ok |-> FALSE]

\* a registry holding the given provider instances, as successive
\* RegisterProvider calls leave it
RECURSIVE RegistryOf(_)
RegistryOf(ps) ==
    IF ps = <<>> THEN EmptyRegistry
    ELSE MapStore(RegistryOf(SubSeq(ps, 1, Len(ps) - 1)), Name(ps[Len(ps)]), ps[Len(ps)])

\* mutants of parseModelIdentifier: an id without separator defaults to openai;
\* the id is split at every separator and the second part is the model
parseModelIdentifierDefaulting(modelID) ==
    LET i == FirstSlash(modelID) IN
    IF i = 0
    THEN [provider |-> <<"openai">>, model |-> modelID, err |-> NoError]
    ELSE [provider |-> SubSeq(modelID, 1, i - 1),
          model |-> SubSeq(modelID, i + 1, Len(modelID)), err |-> NoError]

parseModelIdentifierSplitAll(modelID) ==
    LET i == FirstSlash(modelID)
        rest == SubSeq(modelID, i + 1, Len(modelID))
        j == FirstSlash(rest) IN
    IF i = 0
    THEN [provider |-> <<>>, model |-> <<>>, err |-> ErrInvalidIdentifier]
    ELSE [provider |-> SubSeq(modelID, 1, i - 1),
          model |-> IF j = 0 THEN rest ELSE SubSeq(rest, 1, j - 1), err |-> NoError]

\* parts := strings.SplitN(modelID, "/", 2)
parseModelIdentifier(modelID) ==
    LET i == FirstSlash(modelID) IN
    IF i = 0
    THEN [provider |-> <<>>, model |-> <<>>, err |-> ErrInvalidIdentifier]
    ELSE [provider |-> SubSeq(modelID, 1, i - 1),
          model |-> SubSeq(modelID, i + 1, Len(modelID)), err |-> NoError]

\* getProviderForModel, given the table it reads under the read lock
getProviderForModel(registry, modelID) ==
    LET parsed == parseModelIdentifier(modelID)
        found == MapLoad(registry, parsed.provider) IN
    IF parsed.err # NoError
    THEN [provider |-> NilProvider, modelName |-> <<>>, err |-> parsed.err]
    ELSE IF ~found.ok
    THEN [provider |-> NilProvider, modelName |-> <<>>, err |-> ErrProviderNotFound]
    ELSE IF ~SupportsModel(found.provider, parsed.model)
    THEN [provider |-> NilProvider, modelName |-> <<>>, err |-> ErrModelUnsupported]
    ELSE [provider |-> found.provider, modelName |-> parsed.model, err |-> NoError]

\* a call that reached an adapter: which provider, which operation, which request
Invocation(p, op, req) == [provider |-> p, op |-> op, req |-> req]

\* mutant of Completion: the resolution error is ignored and the call goes on
\* to the openai adapter with the unresolved id
CompletionIgnoringResolveError(registry, modelID, messages, opts, net) ==
    LET r == getProviderForModel(registry, modelID)
        p == IF r.err = NoError THEN r.provider ELSE NewProviderWithKey("openai", "sk")
        req == ApplyOptions(NewRequest(IF r.err = NoError THEN r.modelName ELSE modelID,
                                       messages, FALSE), opts)
        out == ProviderCompletion(p, req, net) IN
    [resp |-> out.resp, err |-> out.err, applied |-> Len(opts),
     invoked |-> <<Invocation(p, "Completion", req)>>,
     built |-> out.built, sent |-> out.sent]

\* llm.Completion: the result, the options applied and the adapter calls made
Completion(registry, modelID, messages, opts, net) ==
    LET r == getProviderForModel(registry, modelID) IN
    IF r.err # NoError
    THEN [resp |-> NilResponse, err |-> r.err, applied |-> 0, invoked |-> <<>>,
          built |-> 0, sent |-> 0]
    ELSE LET req == ApplyOptions(NewRequest(r.modelName, messages, FALSE), opts)
             out == ProviderCompletion(r.provider, req, net) IN
         [resp |-> out.resp, err |-> out.err, applied |-> Len(opts),
          invoked |-> <<Invocation(r.provider, "Completion", req)>>,
          built |-> out.built, sent |-> out.sent]

\* llm.CompletionStream
CompletionStream(registry, modelID, messages, opts, net) ==
    LET r == getProviderForModel(registry, modelID) IN
    IF r.err # NoError
    THEN [stream |-> NilStream, err |-> r.err, applied |-> 0, invoked |-> <<>>,
          built |-> 0, sent |-> 0]
    ELSE LET req == ApplyOptions(NewRequest(r.modelName, messages, TRUE), opts)
             out == ProviderCompletionStream(r.provider, req, net) IN
         [stream |-> out.stream, err |-> out.err, applied |-> Len(opts),
          invoked |-> <<Invocation(r.provider, "CompletionStream", req)>>,
          built |-> out.built, sent |-> out.sent]

----------------------------------------------------------------------------
(* State shared by the specifications *)

\* sync.RWMutex: the goroutine holding the write lock, the goroutine that has
\* announced a Lock and waits for the readers to leave, the read-lock holders
Unlocked == [writer |-> 0, pending |-> 0, readers |-> {}]

NoGoroutines == <<>>
NoHistory == [registered |-> <<>>]
NoDirect == [pc |-> "idle"]
NoRouter == [routes |-> <<>>, fallbackModel |-> <<>>]
NoRouteCall == [pc |-> "idle"]
NoStream == [open |-> FALSE]

----------------------------------------------------------------------------
(* Direct calls: llm.Completion and llm.CompletionStream on a registry that *)
(* start-up has filled                                                      *)

\* the registries the direct calls run against: openai and the mock, each
\* absent, registered without a key or registered with one
DirectRegistries ==
    {RegistryOf(ps) : ps \in
        {<<>>} \cup {<<NewProviderWithKey(v, k)>> : v \in {"openai", "mock"}, k \in APIKeys}
        \cup {<<NewProviderWithKey("openai", k1), NewProviderWithKey("mock", k2)>> :
                k1 \in APIKeys, k2 \in APIKeys}}

QualifiedModelIDs == StringsUpTo(MaxIdLen)

DirectInit ==
    /\ registeredProviders \in DirectRegistries
    /\ providerMu = Unlocked
    /\ goroutines = NoGoroutines
    /\ history = NoHistory
    /\ direct = NoDirect
    /\ router = NoRouter
    /\ routeCall = NoRouteCall
    /\ stream = NoStream

\* gollm.Completion(ctx, modelID, messages, opts...)
CallCompletion ==
    /\ direct.pc = "idle"
    /\ \E modelID \in QualifiedModelIDs, opts \in OptionLists, status \in NetStatuses :
         direct' = [pc |-> "returned", op |-> "Completion", modelID |-> modelID,
                    opts |-> opts,
                    out |-> Completion(registeredProviders, modelID, Messages, opts,
                                       Net(status, 1))]
    /\ UNCHANGED <<registeredProviders, providerMu, goroutines, history, router,
                   routeCall, stream>>

\* gollm.CompletionStream(ctx, modelID, messages, opts...)
CallCompletionStream ==
    /\ direct.pc = "idle"
    /\ \E modelID \in QualifiedModelIDs, opts \in OptionLists, status \in NetStatuses :
         direct' = [pc |-> "returned", op |-> "CompletionStream", modelID |-> modelID,
                    opts |-> opts,
                    out |-> CompletionStream(registeredProviders, modelID, Messages, opts,
                                             Net(status, 1))]
    /\ UNCHANGED <<registeredProviders, providerMu, goroutines, history, router,
                   routeCall, stream>>

\* the caller has looked at the result and is ready for its next call
DirectDone ==
    /\ direct.pc = "returned"
    /\ direct' = NoDirect
    /\ UNCHANGED <<registeredProviders, providerMu, goroutines, history, router,
                   routeCall, stream>>

DirectNext == CallCompletion \/ CallCompletionStream \/ DirectDone

SpecDirect == DirectInit /\ [][DirectNext]_vars

----------------------------------------------------------------------------
(* Streams, as their consumer sees them.  next is what the connection       *)
(* delivers as the next line that is neither blank nor a comment:           *)
(*   "chunk"   a data line holding one of the vendor's events with content, *)
(*   "done"    the data line [DONE],                                        *)
(*   "bad"     a data line that is not the vendor's JSON,                   *)
(*   "readerr" the read fails,                                              *)
(*   "eof"     the connection ends without the sentinel.                    *)

RecvInputs == {"chunk", "done", "bad", "readerr", "eof"}

EOF == "EOF"
ErrParseStream == "failed to parse stream chunk"
ErrRead == "read error"
\* net/http: a Read of a response body after its Close
ErrClosedBody == "http: read on closed response body"
\* context.Canceled, the error of a Read of a response body whose request's
\* context has been cancelled
ErrCanceled == "context canceled"

\* ResponseStream.Recv: the stream afterwards, the chunk and the error
Recv(s, next) ==
    IF s.streamFinished THEN [s |-> s, resp |-> NilResponse, err |-> EOF]
    ELSE IF next = "readerr" THEN [s |-> s, resp |-> NilResponse, err |-> ErrRead]
    ELSE IF next = "eof" THEN [s |-> s, resp |-> NilResponse, err |-> EOF]
    ELSE IF next = "done"
    THEN [s |-> [s EXCEPT !.streamFinished = TRUE], resp |-> NilResponse, err |-> EOF]
    ELSE IF next = "bad" THEN [s |-> s, resp |-> NilResponse, err |-> ErrParseStream]
    ELSE [s |-> s, resp |-> [ID |-> s.conn, Provider |-> s.provider], err |-> NoError]

----------------------------------------------------------------------------
(* The router (package router): route tables by task type, a fallback      *)
(* model, and the selection procedure of Route and RouteStream              *)

TaskTypeGeneral == "general"
TaskTypeCreative == "creative"
TaskTypeCodeGeneration == "code_generation"
TaskTypes == {TaskTypeGeneral, TaskTypeCreative}

ModelRoute(taskType, modelID, priority, maxTokens) ==
    [TaskType |-> taskType, ModelID |-> modelID, Priority |-> priority,
     MaxTokens |-> maxTokens]

\* NewRouter(WithRoutes(routes), WithFallbackModel(fallback))
NewRouter(routes, fallback) == [routes |-> routes, fallbackModel |-> fallback]

\* the router the smart-routing example builds
ExampleRouter ==
    NewRouter(
        <<ModelRoute(TaskTypeCodeGeneration, <<"openai", "/", "gpt-4o">>, 3, 8192),
          ModelRoute(TaskTypeCodeGeneration, <<"anthropic", "/", "claude-3-opus">>, 2, 200000),
          ModelRoute(TaskTypeCreative, <<"anthropic", "/", "claude-3-opus">>, 3, 200000),
          ModelRoute(TaskTypeCreative, <<"openai", "/", "gpt-4o">>, 2, 8192),
          ModelRoute(TaskTypeGeneral, <<"openai", "/", "gpt-3.5-turbo">>, 1, 4096),
          ModelRoute(TaskTypeGeneral, <<"anthropic", "/", "claude-3-haiku">>, 2, 200000)>>,
        <<"openai", "/", "gpt-3.5-turbo">>)

\* the route lists of a task type, in insertion order; pos is the place of the
\* route in the list NewRouter was given
RoutesFor(r, taskType) ==
    LET idx == {i \in 1..Len(r.routes) : r.routes[i].TaskType = taskType}
        RECURSIVE Pick(_)
        Pick(i) ==
            IF i > Len(r.routes) THEN <<>>
            ELSE IF i \in idx THEN <<[route |-> r.routes[i], pos |-> i]>> \o Pick(i + 1)
            ELSE Pick(i + 1) IN
    Pick(1)

\* mutant of InsertByPriority: an equal priority goes in front
InsertByPriorityUnstable(c, sorted) ==
    LET before == {i \in 1..Len(sorted) : sorted[i].route.Priority > c.route.Priority}
        n == Cardinality(before) IN
    SubSeq(sorted, 1, n) \o <<c>> \o SubSeq(sorted, n + 1, Len(sorted))

\* one step of a stable sort by descending priority: c, which came after every
\* element of sorted, goes behind every element whose priority is not lower
InsertByPriority(c, sorted) ==
    LET before == {i \in 1..Len(sorted) : sorted[i].route.Priority >= c.route.Priority}
        n == Cardinality(before) IN
    SubSeq(sorted, 1, n) \o <<c>> \o SubSeq(sorted, n + 1, Len(sorted))

RECURSIVE SortByPriority(_)
SortByPriority(cands) ==
    IF cands = <<>> THEN <<>>
    ELSE InsertByPriority(cands[Len(cands)],
                          SortByPriority(SubSeq(cands, 1, Len(cands) - 1)))

\* the candidates of a Route call, in attempt order
Candidates(r, taskType) == SortByPriority(RoutesFor(r, taskType))

\* one attempt of Route (llm.Completion) or RouteStream (llm.CompletionStream)
\* on a qualified model id
TryModel(op, registry, modelID, opts, net) ==
    IF op = "Route"
    THEN LET out == Completion(registry, modelID, Messages, opts, net) IN
         [modelID |-> modelID, err |-> out.err, resp |-> out.resp,
          stream |-> NilStream, invoked |-> out.invoked]
    ELSE LET out == CompletionStream(registry, modelID, Messages, opts, net) IN
         [modelID |-> modelID, err |-> out.err, resp |-> NilResponse,
          stream |-> out.stream, invoked |-> out.invoked]

\* a Route / RouteStream call that has looked up and sorted its candidates
BeginCall(op, r, taskType) ==
    [pc |-> "trying", op |-> op, taskType |-> taskType,
     candidates |-> Candidates(r, taskType), attempts |-> <<>>,
     resp |-> NilResponse, stream |-> NilStream, err |-> NoError]

\* mutants of AfterCandidate: a success does not end the call; a failure does
AfterCandidateNoStop(call, a) ==
    [call EXCEPT !.attempts = Append(@, a), !.resp = a.resp, !.stream = a.stream]

AfterCandidateAbort(call, a) ==
    [call EXCEPT !.pc = "returned", !.attempts = Append(@, a),
                 !.resp = a.resp, !.stream = a.stream, !.err = a.err]

\* the call after the attempt a on its next candidate: it returns a's result
\* when a succeeded and goes on to the next candidate when a failed
AfterCandidate(call, a) ==
    IF a.err = NoError
    THEN [call EXCEPT !.pc = "returned", !.attempts = Append(@, a),
                      !.resp = a.resp, !.stream = a.stream, !.err = NoError]
    ELSE [call EXCEPT !.attempts = Append(@, a)]

\* mutants of AfterFallback: a failed fallback is tried once more; the error
\* returned is the first candidate's
AfterFallbackRetry(call, a) ==
    IF a.err = NoError \/ Len(call.attempts) > Len(call.candidates)
    THEN [call EXCEPT !.pc = "returned", !.attempts = Append(@, a),
                      !.resp = a.resp, !.stream = a.stream, !.err = a.err]
    ELSE [call EXCEPT !.attempts = Append(@, a)]

AfterFallbackFirstError(call, a) ==
    [call EXCEPT !.pc = "returned", !.attempts = Append(@, a),
                 !.resp = a.resp, !.stream = a.stream,
                 !.err = IF a.err # NoError /\ call.attempts # <<>>
                         THEN call.attempts[1].err ELSE a.err]

\* the call after the attempt a on the fallback model: a's result, whatever it is
AfterFallback(call, a) ==
    [call EXCEPT !.pc = "returned", !.attempts = Append(@, a),
                 !.resp = a.resp, !.stream = a.stream, !.err = a.err]

\* the stream handle in the caller's hands
Opened(handle) == [open |-> TRUE, handle |-> handle, recvs |-> 0,
                   resp |-> NilResponse, err |-> NoError]

\* the options the routed calls pass on
RouteOpts == <<WithTemperature(9)>>

\* the upstream either answers or refuses
RouteNetStatuses == {"ok", "status"}

\* the registries the routed calls run against
RouterRegistries ==
    {RegistryOf(<<NewProviderWithKey("openai", "sk"), NewProviderWithKey("anthropic", "sk")>>),
     RegistryOf(<<NewProviderWithKey("openai", "")>>)}

\* the routers the routed calls run against
CandidateModelIDs ==
    {<<"openai", "/", "gpt-4o">>, <<"anthropic", "/", "claude-3-opus">>, <<"gpt-4o">>}
FallbackModelIDs ==
    {<<"openai", "/", "gpt-3.5-turbo">>, <<"anthropic", "/", "claude-3-haiku">>}
RouteTaskTypes == TaskTypes
RouteChoices ==
    {ModelRoute(t, id, p, 8192) :
        t \in RouteTaskTypes, id \in CandidateModelIDs, p \in 1..MaxPriority}
RouteLists == UNION {[1..n -> RouteChoices] : n \in 0..MaxRoutes}
Routers ==
    {ExampleRouter} \cup {NewRouter(rs, fb) : rs \in RouteLists, fb \in FallbackModelIDs}

RouterInit ==
    /\ registeredProviders \in RouterRegistries
    /\ providerMu = Unlocked
    /\ goroutines = NoGoroutines
    /\ history = NoHistory
    /\ direct = NoDirect
    /\ router \in Routers
    /\ routeCall = NoRouteCall
    /\ stream = NoStream

\* r.Route(ctx, taskType, messages, opts...) is entered
RouteBegin ==
    /\ routeCall.pc = "idle"
    /\ \E taskType \in TaskTypes : routeCall' = BeginCall("Route", router, taskType)
    /\ UNCHANGED <<registeredProviders, providerMu, goroutines, history, direct, router,
                   stream>>

\* r.RouteStream(ctx, taskType, messages, opts...) is entered
RouteStreamBegin ==
    /\ routeCall.pc = "idle"
    /\ \E taskType \in TaskTypes : routeCall' = BeginCall("RouteStream", router, taskType)
    /\ UNCHANGED <<registeredProviders, providerMu, goroutines, history, direct, router,
                   stream>>

\* the next candidate is attempted
RouteTryCandidate ==
    /\ routeCall.pc = "trying"
    /\ Len(routeCall.attempts) < Len(routeCall.candidates)
    /\ \E status \in RouteNetStatuses :
         LET n == Len(routeCall.attempts) + 1
             c == routeCall.candidates[n]
             a == TryModel(routeCall.op, registeredProviders, c.route.ModelID,
                           RouteOpts, Net(status, n))
             next == AfterCandidate(routeCall,
                         a @@ [role |-> "candidate", pos |-> c.pos,
                               priority |-> c.route.Priority]) IN
         /\ routeCall' = next
         /\ stream' = IF next.pc = "returned" /\ next.stream # NilStream
                      THEN Opened(next.stream) ELSE stream
    /\ UNCHANGED <<registeredProviders, providerMu, goroutines, history, direct, router>>

\* the candidates are exhausted (or there were none): the fallback is attempted
RouteTryFallback ==
    /\ routeCall.pc = "trying"
    /\ Len(routeCall.attempts) >= Len(routeCall.candidates)
    /\ \E status \in RouteNetStatuses :
         LET n == Len(routeCall.attempts) + 1
             a == TryModel(routeCall.op, registeredProviders, router.fallbackModel,
                           RouteOpts, Net(status, n))
             next == AfterFallback(routeCall,
                         a @@ [role |-> "fallback", pos |-> 0, priority |-> 0]) IN
         /\ routeCall' = next
         /\ stream' = IF next.pc = "returned" /\ next.stream # NilStream
                      THEN Opened(next.stream) ELSE stream
    /\ UNCHANGED <<registeredProviders, providerMu, goroutines, history, direct, router>>

\* chunk, err := stream.Recv() on the handle RouteStream returned
StreamRecv ==
    /\ stream.open
    /\ stream.recvs < MaxRecv
    /\ \E next \in RecvInputs :
         LET r == Recv(stream.handle, next) IN
         stream' = [stream EXCEPT !.handle = r.s, !.recvs = @ + 1,
                                  !.resp = r.resp, !.err = r.err]
    /\ UNCHANGED <<registeredProviders, providerMu, goroutines, history, direct, router,
                   routeCall>>

\* the caller is done with the result (and closes the stream it was given)
RouteDone ==
    /\ routeCall.pc = "returned"
    /\ routeCall' = NoRouteCall
    /\ stream' = NoStream
    /\ UNCHANGED <<registeredProviders, providerMu, goroutines, history, direct, router>>

RouterNext ==
    \/ RouteBegin
    \/ RouteStreamBegin
    \/ RouteTryCandidate
    \/ RouteTryFallback
    \/ StreamRecv
    \/ RouteDone

SpecRouter == RouterInit /\ [][RouterNext]_vars

----------------------------------------------------------------------------
(* The registry under concurrent callers.  Each goroutine makes one call at *)
(* a time: RegisterProvider, GetProvider, ListProviders or a resolution     *)
(* (getProviderForModel), and steps through it.  A map assignment is not    *)
(* atomic: between its two steps the entry is partially written.            *)

Goroutines == 1..MaxGoroutines

\* an entry whose interface words are half written
PartialEntry == [nil |-> "partial"]

Idle == [pc |-> "idle", op |-> "none", arg |-> <<>>, out |-> <<>>]

\* what the concurrent callers register, look up and resolve
RegisteredByCallers ==
    {NewProviderWithKey("openai", ""), NewProviderWithKey("openai", "sk"),
     NewProviderWithKey("mock", "sk")}
LookedUpByCallers == {<<"openai">>, <<"mock">>}
ResolvedByCallers == {<<"openai", "/", "gpt-4o">>, <<"gpt-4o">>}

\* mutants of the lock: RLock does not wait for a writer; Lock does not wait
\* for the readers
CanRLockAlways(mu) == TRUE
CanLockIgnoringReaders(mu, g) == mu.pending = g

\* providerMu.RLock() returns when no writer holds or has announced the lock
CanRLock(mu) == mu.writer = 0 /\ mu.pending = 0

\* providerMu.Lock() is entered by one writer at a time ...
CanAnnounceLock(mu) == mu.writer = 0 /\ mu.pending = 0

\* ... and returns when the readers have left
CanLock(mu, g) == mu.pending = g /\ mu.readers = {}

\* the orders in which a range over the map can deliver its keys
RECURSIVE Orders(_)
Orders(keys) ==
    IF keys = {} THEN {<<>>}
    ELSE UNION {{<<k>> \o s : s \in Orders(keys \ {k})} : k \in keys}

\* for name := range registeredProviders { providers = append(providers, name) }
RangeKeys(m) == Orders(DOMAIN m)

RegistryInit ==
    /\ registeredProviders = EmptyRegistry
    /\ providerMu = Unlocked
    /\ goroutines = [g \in Goroutines |-> Idle]
    /\ history = NoHistory
    /\ direct = NoDirect
    /\ router = NoRouter
    /\ routeCall = NoRouteCall
    /\ stream = NoStream

Unused == <<direct, router, routeCall, stream>>

\* llm.RegisterProvider(provider) is called
RegisterProviderCall(g) ==
    /\ goroutines[g].pc = "idle"
    /\ \E p \in RegisteredByCallers :
         goroutines' = [goroutines EXCEPT ![g] =
                           [pc |-> "Lock", op |-> "RegisterProvider", arg |-> p,
                            out |-> <<>>]]
    /\ UNCHANGED <<registeredProviders, providerMu, history, Unused>>

\* providerMu.Lock(): the writer announces itself
LockAnnounce(g) ==
    /\ goroutines[g].pc = "Lock"
    /\ CanAnnounceLock(providerMu)
    /\ providerMu' = [providerMu EXCEPT !.pending = g]
    /\ goroutines' = [goroutines EXCEPT ![g].pc = "LockWait"]
    /\ UNCHANGED <<registeredProviders, history, Unused>>

\* providerMu.Lock() returns
LockAcquire(g) ==
    /\ goroutines[g].pc = "LockWait"
    /\ CanLock(providerMu, g)
    /\ providerMu' = [providerMu EXCEPT !.pending = 0, !.writer = g]
    /\ goroutines' = [goroutines EXCEPT ![g].pc = "Store"]
    /\ UNCHANGED <<registeredProviders, history, Unused>>

\* registeredProviders[provider.Name()] = provider, first half
StoreBegin(g) ==
    /\ goroutines[g].pc = "Store"
    /\ registeredProviders' =
           MapStore(registeredProviders, Name(goroutines[g].arg), PartialEntry)
    /\ goroutines' = [goroutines EXCEPT ![g].pc = "Storing"]
    /\ UNCHANGED <<providerMu, history, Unused>>

\* registeredProviders[provider.Name()] = provider, second half
StoreEnd(g) ==
    /\ goroutines[g].pc = "Storing"
    /\ registeredProviders' =
           MapStore(registeredProviders, Name(goroutines[g].arg), goroutines[g].arg)
    /\ history' = [history EXCEPT !.registered =
                      [n \in DOMAIN @ \cup {Name(goroutines[g].arg)} |->
                          IF n = Name(goroutines[g].arg) THEN goroutines[g].arg ELSE @[n]]]
    /\ goroutines' = [goroutines EXCEPT ![g].pc = "Unlock"]
    /\ UNCHANGED <<providerMu, Unused>>

\* defer providerMu.Unlock(), and RegisterProvider returns
Unlock(g) ==
    /\ goroutines[g].pc = "Unlock"
    /\ providerMu' = [providerMu EXCEPT !.writer = 0]
    /\ goroutines' = [goroutines EXCEPT ![g] = Idle]
    /\ UNCHANGED <<registeredProviders, history, Unused>>

\* llm.GetProvider(name) is called
GetProviderCall(g) ==
    /\ goroutines[g].pc = "idle"
    /\ \E name \in LookedUpByCallers :
         goroutines' = [goroutines EXCEPT ![g] =
                           [pc |-> "RLock", op |-> "GetProvider", arg |-> name,
                            out |-> <<>>]]
    /\ UNCHANGED <<registeredProviders, providerMu, history, Unused>>

\* llm.ListProviders() is called
ListProvidersCall(g) ==
    /\ goroutines[g].pc = "idle"
    /\ goroutines' = [goroutines EXCEPT ![g] =
                         [pc |-> "RLock", op |-> "ListProviders", arg |-> <<>>,
                          out |-> <<>>]]
    /\ UNCHANGED <<registeredProviders, providerMu, history, Unused>>

\* getProviderForModel(modelID) is called and parses the id: an id that does not
\* parse returns at once, without touching the lock
ResolveCall(g) ==
    /\ goroutines[g].pc = "idle"
    /\ \E modelID \in ResolvedByCallers :
         LET parsed == parseModelIdentifier(modelID) IN
         goroutines' = [goroutines EXCEPT ![g] =
             IF parsed.err # NoError
             THEN [pc |-> "Return", op |-> "getProviderForModel", arg |-> modelID,
                   out |-> [provider |-> NilProvider, modelName |-> <<>>,
                            err |-> parsed.err]]
             ELSE [pc |-> "RLock", op |-> "getProviderForModel", arg |-> modelID,
                   out |-> <<>>]]
    /\ UNCHANGED <<registeredProviders, providerMu, history, Unused>>

\* providerMu.RLock() returns
RLock(g) ==
    /\ goroutines[g].pc = "RLock"
    /\ CanRLock(providerMu)
    /\ providerMu' = [providerMu EXCEPT !.readers = @ \cup {g}]
    /\ goroutines' = [goroutines EXCEPT ![g].pc = "Read"]
    /\ UNCHANGED <<registeredProviders, history, Unused>>

\* the name a resolution looks up
LookupName(modelID) == parseModelIdentifier(modelID).provider

\* a method call on a partly written interface value has no defined result
Undefined == "undefined"

\* the body of the reading call, under the read lock
Read(g) ==
    /\ goroutines[g].pc = "Read"
    /\ \E out \in
           CASE goroutines[g].op = "GetProvider" ->
                    {MapLoad(registeredProviders, goroutines[g].arg)}
             [] goroutines[g].op = "ListProviders" ->
                    {[names |-> s] : s \in RangeKeys(registeredProviders)}
             [] MapLoad(registeredProviders, LookupName(goroutines[g].arg)).provider
                    = PartialEntry ->
                    {[provider |-> PartialEntry, modelName |-> <<>>, err |-> Undefined]}
             [] OTHER ->
                    {getProviderForModel(registeredProviders, goroutines[g].arg)} :
         goroutines' = [goroutines EXCEPT ![g].pc = "RUnlock", ![g].out = out]
    /\ UNCHANGED <<registeredProviders, providerMu, history, Unused>>

\* the read lock is not released when the reading call returns: it stays held
\* while the caller goes on
RUnlockLeftToCaller(g) ==
    /\ goroutines[g].pc = "RUnlock"
    /\ goroutines' = [goroutines EXCEPT ![g].pc = "Return"]
    /\ UNCHANGED <<registeredProviders, providerMu, history, Unused>>

\* defer providerMu.RUnlock()
RUnlock(g) ==
    /\ goroutines[g].pc = "RUnlock"
    /\ providerMu' = [providerMu EXCEPT !.readers = @ \ {g}]
    /\ goroutines' = [goroutines EXCEPT ![g].pc = "Return"]
    /\ UNCHANGED <<registeredProviders, history, Unused>>

\* the reading call returns its result to the caller
Return(g) ==
    /\ goroutines[g].pc = "Return"
    /\ goroutines' = [goroutines EXCEPT ![g] = Idle]
    /\ UNCHANGED <<registeredProviders, providerMu, history, Unused>>

RegistryNext ==
    \E g \in Goroutines :
        \/ RegisterProviderCall(g)
        \/ LockAnnounce(g)
        \/ LockAcquire(g)
        \/ StoreBegin(g)
        \/ StoreEnd(g)
        \/ Unlock(g)
        \/ GetProviderCall(g)
        \/ ListProvidersCall(g)
        \/ ResolveCall(g)
        \/ RLock(g)
        \/ Read(g)
        \/ RUnlock(g)
        \/ Return(g)

SpecRegistry == RegistryInit /\ [][RegistryNext]_vars

----------------------------------------------------------------------------
(* Adapter calls: llm.Completion and llm.CompletionStream reaching the      *)
(* three adapters, with every option and every outcome of the exchange      *)

\* the registries start-up leaves: each adapter's init() registers
\* NewProvider(), whose key is whatever the environment held
AdapterRegistries ==
    {RegistryOf(<<NewProviderWithKey("openai", k1), NewProviderWithKey("anthropic", k2),
                  NewProviderWithKey("google", k3)>>) :
        k1 \in APIKeys, k2 \in APIKeys, k3 \in APIKeys}

\* one supported model of each adapter
AdapterModelIDs ==
    {<<"openai", Slash, "gpt-4o">>, <<"anthropic", Slash, "claude-3-opus-20240229">>,
     <<"google", Slash, "gemini-1.5-pro">>}

\* the options callers pass: every option, the pointer-valued ones that the
\* examples use with two values
AdapterOptionValues ==
    {WithTemperature(7), WithTemperature(2), WithMaxTokens(100), WithMaxTokens(50),
     WithTopP(9), WithUser("user-1")}
AdapterOptionLists == UNION {[1..k -> AdapterOptionValues] : k \in 0..MaxOpts}

\* what a vendor's body reports as usage: nothing, the two counts without a
\* total, the counts with their sum, the counts with another total
UsageBodies ==
    {NoUsage,
     [f \in {"prompt", "completion"} |-> IF f = "prompt" THEN 3 ELSE 4],
     [f \in {"prompt", "completion", "total"} |->
        IF f = "prompt" THEN 3 ELSE IF f = "completion" THEN 4 ELSE 7],
     [f \in {"prompt", "completion", "total"} |->
        IF f = "prompt" THEN 3 ELSE IF f = "completion" THEN 4 ELSE 9]}

\* the exchanges: the three failures, and a 200 that parses with no or one
\* choice and any of the usage objects
AdapterNets ==
    {Net(status, "id-1") : status \in {"transport", "status", "parse"}}
    \cup {NetBody("ok", "id-1", n, u) : n \in {0, 1}, u \in UsageBodies}

AdapterInit ==
    /\ registeredProviders \in AdapterRegistries
    /\ providerMu = Unlocked
    /\ goroutines = NoGoroutines
    /\ history = NoHistory
    /\ direct = NoDirect
    /\ router = NoRouter
    /\ routeCall = NoRouteCall
    /\ stream = NoStream

\* llm.Completion(ctx, modelID, messages, opts...) answered by the exchange net
AdapterCompletion ==
    /\ direct.pc = "idle"
    /\ \E modelID \in AdapterModelIDs, opts \in AdapterOptionLists, net \in AdapterNets :
         direct' = [pc |-> "returned", op |-> "Completion", modelID |-> modelID,
                    opts |-> opts, net |-> net,
                    out |-> Completion(registeredProviders, modelID, Messages, opts, net)]
    /\ UNCHANGED <<registeredProviders, providerMu, goroutines, history, router,
                   routeCall, stream>>

\* llm.CompletionStream(ctx, modelID, messages, opts...)
AdapterCompletionStream ==
    /\ direct.pc = "idle"
    /\ \E modelID \in AdapterModelIDs, opts \in AdapterOptionLists, net \in AdapterNets :
         direct' = [pc |-> "returned", op |-> "CompletionStream", modelID |-> modelID,
                    opts |-> opts, net |-> net,
                    out |-> CompletionStream(registeredProviders, modelID, Messages, opts,
                                             net)]
    /\ UNCHANGED <<registeredProviders, providerMu, goroutines, history, router,
                   routeCall, stream>>

\* the caller goes on to its next call
AdapterDone ==
    /\ direct.pc = "returned"
    /\ direct' = NoDirect
    /\ UNCHANGED <<registeredProviders, providerMu, goroutines, history, router,
                   routeCall, stream>>

AdapterNext == AdapterCompletion \/ AdapterCompletionStream \/ AdapterDone

SpecAdapter == AdapterInit /\ [][AdapterNext]_vars

----------------------------------------------------------------------------
(* The streams of the three adapters, line by line.  A connection is the    *)
(* sequence of lines the body holds, as ReadLine returns them (trimmed),    *)
(* and what the read after the last line gives: io.EOF or an error.         *)
(* A line is blank, a comment, or a data line; the payload of a data line   *)
(* is text that is not JSON (a sequence of words) or a JSON object.         *)

BlankLine == [kind |-> "blank"]
CommentLine == [kind |-> "comment"]
DataLine(payload) == [kind |-> "data", payload |-> payload]

\* payloads that json.Unmarshal rejects, by the words of their text
Text(words) == [json |-> FALSE, text |-> words]
\* the end sentinel
Done == Text(<<"[DONE]">>)
\* text that is not JSON, without and with the word finishReason in it
Garbage == Text(<<"{", "oops">>)
GarbageFinish == Text(<<"{", "finishReason", "oops">>)

\* a JSON object, by the fields the vendor's event struct decodes
Event(value) == [json |-> TRUE, value |-> value]

\* bytes.Equal(data, []byte("[DONE]"))
IsDone(data) == ~data.json /\ data.text = <<"[DONE]">>

\* strings.Contains(string(data), word)
Contains(data, word) == ~data.json /\ \E i \in 1..Len(data.text) : data.text[i] = word

\* openAIStreamChunk: id and choices, each choice a delta and a finish reason
OpenAIChunk(id, choices) == Event([id |-> id, choices |-> choices])
OpenAIChoice(role, content, finishReason) ==
    [role |-> role, content |-> content, finish_reason |-> finishReason]

\* anthropicEvent: type, message id ("" without message), content_block and
\* delta (Nil when absent)
AnthropicEvent(type, messageID, contentBlock, delta) ==
    Event([type |-> type, message |-> messageID, content_block |-> contentBlock,
           delta |-> delta])
AnthropicDelta(text, stopReason) == Ptr([text |-> text, stop_reason |-> stopReason])
AnthropicBlock(text) == Ptr([text |-> text])

\* geminiResponse: candidates, each with its parts' texts and a finish reason
GeminiEvent(candidates) == Event([candidates |-> candidates])
GeminiCandidate(parts, finishReason) == [parts |-> parts, finishReason |-> finishReason]

\* the body of a connection (resp.Body): the lines not yet returned, of
\* which the first buffered are in the line reader's buffer already; open
\* until Close is called on it, readable until the request's context is
\* cancelled
Body(lines, end) ==
    [lines |-> lines, end |-> end, buffered |-> 0, closed |-> FALSE, cancelled |-> FALSE]

\* &OpenAIResponseStream{reader: newBufReader(resp.Body), provider: p.Name()}
\* and its anthropic and google counterparts: the handle CompletionStream
\* returned, bound to the body; fields a vendor's struct lacks stay zero
NewStream(handle, body) ==
    [provider |-> handle.provider, streamFinished |-> handle.streamFinished,
     reader |-> body, id |-> "", currentRole |-> ""]

\* bufReader.ReadLine: a line the buffer holds is returned without a read of
\* the body; otherwise the body is read, and the next line arrives (whole) or
\* the read fails: on a closed body, on a body whose request was cancelled,
\* and past the end
ReadLine(reader) ==
    IF reader.buffered > 0
    THEN [reader |-> [reader EXCEPT !.lines = Tail(@), !.buffered = @ - 1],
          line |-> Head(reader.lines), err |-> NoError]
    ELSE IF reader.closed
    THEN [reader |-> reader, line |-> BlankLine, err |-> ErrClosedBody]
    ELSE IF reader.cancelled
    THEN [reader |-> reader, line |-> BlankLine, err |-> ErrCanceled]
    ELSE IF reader.lines = <<>>
    THEN [reader |-> reader, line |-> BlankLine,
          err |-> IF reader.end = "eof" THEN EOF ELSE ErrRead]
    ELSE [reader |-> [reader EXCEPT !.lines = Tail(@)], line |-> Head(reader.lines),
          err |-> NoError]

\* mutant of StreamClose: the second Close of a body reports an error
StreamCloseOnce(s) ==
    [s |-> [s EXCEPT !.reader.closed = TRUE],
     err |-> IF s.reader.closed THEN ErrClosedBody ELSE NoError]

\* (*OpenAIResponseStream).Close and its anthropic and google counterparts:
\* return s.reader.Close(), which is resp.Body.Close(); net/http closes the
\* body and returns nil, the first time and every time after.  The stream's
\* own fields are not touched
StreamClose(s) ==
    [s |-> [s EXCEPT !.reader.closed = TRUE], err |-> NoError]

\* what handling one data line comes to: Recv returns, or goes on reading
Returns(s, resp, err) == [continue |-> FALSE, s |-> s, resp |-> resp, err |-> err]
Continues(s) == [continue |-> TRUE, s |-> s, resp |-> NilResponse, err |-> NoError]

\* a chunk response
Chunk(id, provider, role, content, finishReason) ==
    [ID |-> id, Object |-> "chat.completion.chunk", Provider |-> provider,
     Choices |-> <<[Index |-> 0, Role |-> role, Content |-> content,
                    FinishReason |-> finishReason]>>]
\* mutants of OpenAIData: the sentinel does not mark the stream finished; a
\* chunk with a finish reason ends the stream and its text is dropped
OpenAIDataDoneNotFinal(s, data) ==
    IF IsDone(data) THEN Returns(s, NilResponse, EOF)
    ELSE IF ~data.json THEN Returns(s, NilResponse, ErrParseStream)
    ELSE LET chunk == data.value
             s1 == IF s.id = "" THEN [s EXCEPT !.id = chunk.id] ELSE s IN
         IF Len(chunk.choices) > 0
         THEN LET choice == chunk.choices[1]
                  s2 == IF choice.role # ""
                        THEN [s1 EXCEPT !.currentRole = choice.role] ELSE s1 IN
              Returns(s2, Chunk(s2.id, s2.provider, s2.currentRole, choice.content,
                               choice.finish_reason), NoError)
         ELSE Continues(s1)

OpenAIDataDropsFinal(s, data) ==
    IF IsDone(data) THEN Returns([s EXCEPT !.streamFinished = TRUE], NilResponse, EOF)
    ELSE IF ~data.json THEN Returns(s, NilResponse, ErrParseStream)
    ELSE LET chunk == data.value
             s1 == IF s.id = "" THEN [s EXCEPT !.id = chunk.id] ELSE s IN
         IF Len(chunk.choices) > 0
         THEN LET choice == chunk.choices[1]
                  s2 == IF choice.role # ""
                        THEN [s1 EXCEPT !.currentRole = choice.role] ELSE s1 IN
              IF choice.finish_reason # ""
              THEN Returns([s2 EXCEPT !.streamFinished = TRUE], NilResponse, EOF)
              ELSE Returns(s2, Chunk(s2.id, s2.provider, s2.currentRole, choice.content,
                                    choice.finish_reason), NoError)
         ELSE Continues(s1)

\* OpenAIResponseStream.Recv, from the data payload on: sentinel, decode,
\* first-chunk state, first choice
OpenAIData(s, data) ==
    IF IsDone(data) THEN Returns([s EXCEPT !.streamFinished = TRUE], NilResponse, EOF)
    ELSE IF ~data.json THEN Returns(s, NilResponse, ErrParseStream)
    ELSE LET chunk == data.value
             s1 == IF s.id = "" THEN [s EXCEPT !.id = chunk.id] ELSE s IN
         IF Len(chunk.choices) > 0
         THEN LET choice == chunk.choices[1]
                  s2 == IF choice.role # ""
                        THEN [s1 EXCEPT !.currentRole = choice.role] ELSE s1 IN
              Returns(s2, Chunk(s2.id, s2.provider, s2.currentRole, choice.content,
                               choice.finish_reason), NoError)
         ELSE Continues(s1)

\* AnthropicResponseStream.Recv with the id taken from the first start event
\* only, the way OpenAIResponseStream keeps its first id
AnthropicDataFirstID(s, data) ==
    IF IsDone(data) THEN Returns([s EXCEPT !.streamFinished = TRUE], NilResponse, EOF)
    ELSE IF ~data.json THEN Returns(s, NilResponse, ErrParseStream)
    ELSE LET event == data.value IN
         IF event.type \in {"content_block_start", "content_block_delta"}
         THEN LET content == IF event.content_block # Nil THEN event.content_block[1].text
                             ELSE IF event.delta # Nil THEN event.delta[1].text
                             ELSE ""
                  s1 == IF /\ event.content_block = Nil
                           /\ event.delta # Nil
                           /\ event.delta[1].stop_reason # ""
                        THEN [s EXCEPT !.streamFinished = TRUE] ELSE s IN
              Returns(s1, Chunk(s1.id, s1.provider, "assistant", content, ""), NoError)
         ELSE IF event.type = "message_start" /\ event.message # "" /\ s.id = ""
         THEN Continues([s EXCEPT !.id = event.message])
         ELSE Continues(s)

\* AnthropicResponseStream.Recv, from the data payload on
AnthropicData(s, data) ==
    IF IsDone(data) THEN Returns([s EXCEPT !.streamFinished = TRUE], NilResponse, EOF)
    ELSE IF ~data.json THEN Returns(s, NilResponse, ErrParseStream)
    ELSE LET event == data.value IN
         IF event.type \in {"content_block_start", "content_block_delta"}
         THEN LET content == IF event.content_block # Nil THEN event.content_block[1].text
                             ELSE IF event.delta # Nil THEN event.delta[1].text
                             ELSE ""
                  s1 == IF /\ event.content_block = Nil
                           /\ event.delta # Nil
                           /\ event.delta[1].stop_reason # ""
                        THEN [s EXCEPT !.streamFinished = TRUE] ELSE s IN
              Returns(s1, Chunk(s1.id, s1.provider, "assistant", content, ""), NoError)
         ELSE IF event.type = "message_start" /\ event.message # ""
         THEN Continues([s EXCEPT !.id = event.message])
         ELSE Continues(s)

\* content += part.Text over the parts
RECURSIVE JoinParts(_)
JoinParts(parts) == IF parts = <<>> THEN "" ELSE Head(parts) \o JoinParts(Tail(parts))

\* GeminiResponseStream.Recv, from the data payload on
GeminiData(s, data) ==
    IF IsDone(data) THEN Returns([s EXCEPT !.streamFinished = TRUE], NilResponse, EOF)
    ELSE IF ~data.json
    THEN IF Contains(data, "finishReason")
         THEN Returns([s EXCEPT !.streamFinished = TRUE], NilResponse, EOF)
         ELSE Continues(s)
    ELSE LET chunkResp == data.value IN
         IF Len(chunkResp.candidates) = 0 THEN Continues(s)
         ELSE LET candidate == chunkResp.candidates[1] IN
              Returns(s, Chunk(GoogleID, s.provider, "assistant",
                              JoinParts(candidate.parts), candidate.finishReason),
                     NoError)

\* the data handler of a vendor's stream type
Data(vendor, s, data) ==
    CASE vendor = "openai" -> OpenAIData(s, data)
      [] vendor = "anthropic" -> AnthropicData(s, data)
      [] vendor = "google" -> GeminiData(s, data)

\* for { line, err := s.reader.ReadLine() ... }: lines that are blank, comments
\* or without the data prefix are skipped
RECURSIVE RecvLoop(_, _)
RecvLoop(vendor, s) ==
    LET read == ReadLine(s.reader)
        s1 == [s EXCEPT !.reader = read.reader] IN
    IF read.err # NoError THEN [s |-> s1, resp |-> NilResponse, err |-> read.err]
    ELSE IF read.line.kind # "data" THEN RecvLoop(vendor, s1)
    ELSE LET handled == Data(vendor, s1, read.line.payload) IN
         IF handled.continue THEN RecvLoop(vendor, handled.s)
         ELSE [s |-> handled.s, resp |-> handled.resp, err |-> handled.err]

\* Recv of the three stream types: the stream afterwards, the chunk, the error
StreamRecvOf(vendor, s) ==
    IF s.streamFinished THEN [s |-> s, resp |-> NilResponse, err |-> EOF]
    ELSE RecvLoop(vendor, s)

\* the lines a connection of each vendor carries
OpenAILines ==
    {BlankLine, CommentLine, DataLine(Done), DataLine(Garbage),
     DataLine(OpenAIChunk("chatcmpl-1", <<>>)),
     DataLine(OpenAIChunk("chatcmpl-1", <<OpenAIChoice("assistant", "", "")>>)),
     DataLine(OpenAIChunk("chatcmpl-1", <<OpenAIChoice("", "Hi", "")>>)),
     DataLine(OpenAIChunk("chatcmpl-1", <<OpenAIChoice("", " there", "stop")>>))}

AnthropicLines ==
    {BlankLine, DataLine(Done), DataLine(Garbage),
     DataLine(AnthropicEvent("message_start", "msg_1", Nil, Nil)),
     DataLine(AnthropicEvent("content_block_start", "", AnthropicBlock(""), Nil)),
     DataLine(AnthropicEvent("content_block_delta", "", Nil, AnthropicDelta("Hi", ""))),
     DataLine(AnthropicEvent("content_block_delta", "", Nil,
                             AnthropicDelta("", "end_turn"))),
     DataLine(AnthropicEvent("message_delta", "", Nil, AnthropicDelta("", "end_turn")))}

GeminiLines ==
    {BlankLine, DataLine(Done), DataLine(Garbage), DataLine(GarbageFinish),
     DataLine(GeminiEvent(<<>>)),
     DataLine(GeminiEvent(<<GeminiCandidate(<<"Hel", "lo">>, "")>>)),
     DataLine(GeminiEvent(<<GeminiCandidate(<<"!">>, "STOP")>>))}

LinesOf(vendor) ==
    CASE vendor = "openai" -> OpenAILines
      [] vendor = "anthropic" -> AnthropicLines
      [] vendor = "google" -> GeminiLines

\* the stream of the vendor-A example: a role-only delta, "Hi", " there" with
\* finish_reason stop, [DONE]
ExampleOpenAIStream ==
    <<DataLine(OpenAIChunk("chatcmpl-1", <<OpenAIChoice("assistant", "", "")>>)),
      DataLine(OpenAIChunk("chatcmpl-1", <<OpenAIChoice("", "Hi", "")>>)),
      DataLine(OpenAIChunk("chatcmpl-1", <<OpenAIChoice("", " there", "stop")>>)),
      DataLine(Done)>>

\* the bodies a connection of the vendor can deliver
BodiesOf(vendor) ==
    {Body(lines, end) :
        lines \in UNION {[1..k -> LinesOf(vendor)] : k \in 0..MaxLines}
                  \cup (IF vendor = "openai" THEN {ExampleOpenAIStream} ELSE {}),
        end \in {"eof", "readerr"}}

\* the registry the streams are opened through: the three adapters with keys
StreamRegistry ==
    RegistryOf(<<NewProviderWithKey("openai", "sk"), NewProviderWithKey("anthropic", "sk"),
                 NewProviderWithKey("google", "sk")>>)

StreamInit ==
    /\ registeredProviders = StreamRegistry
    /\ providerMu = Unlocked
    /\ goroutines = NoGoroutines
    /\ history = NoHistory
    /\ direct = NoDirect
    /\ router = NoRouter
    /\ routeCall = NoRouteCall
    /\ stream = NoStream

\* llm.Completion on one of the adapters, before any stream is opened
StreamlessCompletion ==
    /\ direct.pc = "idle"
    /\ ~stream.open
    /\ \E modelID \in AdapterModelIDs :
         direct' = [pc |-> "returned", op |-> "Completion", modelID |-> modelID,
                    opts |-> <<>>, net |-> Net("ok", "id-1"),
                    out |-> Completion(registeredProviders, modelID, Messages, <<>>,
                                       Net("ok", "id-1"))]
    /\ UNCHANGED <<registeredProviders, providerMu, goroutines, history, router,
                   routeCall, stream>>

\* stream, err := llm.CompletionStream(...): the exchange succeeds and the
\* handle is bound to the body the connection will deliver
OpenStream ==
    /\ direct.pc = "idle"
    /\ ~stream.open
    /\ \E modelID \in AdapterModelIDs :
         LET out == CompletionStream(registeredProviders, modelID, Messages, <<>>,
                                     Net("ok", "id-1"))
             adapter == out.invoked[1].provider IN
         \E body \in BodiesOf(adapter.vendor) :
            stream' = [open |-> TRUE, adapter |-> adapter, body |-> body,
                       s |-> NewStream(out.stream, body), results |-> <<>>,
                       closes |-> <<>>]
    /\ UNCHANGED <<registeredProviders, providerMu, goroutines, history, direct, router,
                   routeCall>>

\* response, err := stream.Recv()
RecvNext ==
    /\ stream.open
    /\ Len(stream.results) < MaxLines + 2
    /\ LET r == StreamRecvOf(stream.adapter.vendor, stream.s) IN
       stream' = [stream EXCEPT
                    !.s = r.s,
                    !.results = Append(@, [resp |-> r.resp, err |-> r.err,
                                           left |-> Len(r.s.reader.lines)])]
    /\ UNCHANGED <<registeredProviders, providerMu, goroutines, history, direct, router,
                   routeCall>>

\* stream.Close(): the caller is done with the stream
CloseStream ==
    /\ stream.open
    /\ stream' = NoStream
    /\ UNCHANGED <<registeredProviders, providerMu, goroutines, history, direct, router,
                   routeCall>>

\* for { response, err := stream.Recv(); if err == io.EOF { break } ... } and
\* then the deferred stream.Close(): Close once the loop has ended at
\* end-of-sequence, and Close again; each call is recorded with the stream
\* it left and the number of Recv calls made before it
CloseCall ==
    /\ stream.open
    /\ stream.results # <<>>
    /\ stream.results[Len(stream.results)].err = EOF
    /\ Len(stream.closes) < MaxCloses
    /\ LET c == StreamClose(stream.s) IN
       stream' = [stream EXCEPT
                    !.s = c.s,
                    !.closes = Append(@, [err |-> c.err, s |-> c.s,
                                          recvs |-> Len(stream.results)])]
    /\ UNCHANGED <<registeredProviders, providerMu, goroutines, history, direct, router,
                   routeCall>>

\* a stream read to its end, closed, and read again
CloseNext == OpenStream \/ RecvNext \/ CloseCall \/ CloseStream

SpecClose == StreamInit /\ [][CloseNext]_vars

StreamNext ==
    StreamlessCompletion \/ AdapterDone \/ OpenStream \/ RecvNext \/ CloseStream

SpecStream == StreamInit /\ [][StreamNext]_vars

----------------------------------------------------------------------------
(* Calls under a cancellable context.  ctx is the token the caller hands to *)
(* the call; http.NewRequestWithContext binds the exchange to it, so that   *)
(* once the token is cancelled client.Do and the reads of the body fail.    *)
(* A call is followed through its blocking steps: client.Do, io.ReadAll     *)
(* and, on a stream, the reads Recv makes.  early records that the token    *)
(* was cancelled before the call had its result.                            *)

\* what the exchange answers when it is left to finish
CancelNets == {Net("ok", "id-1"), Net("transport", ""), Net("status", ""), Net("parse", "")}

\* the lines of the streams read under a token: an event with text, a blank
\* line, the sentinel
CancelLines(vendor) ==
    {BlankLine, DataLine(Done),
     CASE vendor = "openai" ->
            DataLine(OpenAIChunk("chatcmpl-1", <<OpenAIChoice("", "Hi", "")>>))
       [] vendor = "anthropic" ->
            DataLine(AnthropicEvent("content_block_delta", "", Nil, AnthropicDelta("Hi", "")))
       [] vendor = "google" ->
            DataLine(GeminiEvent(<<GeminiCandidate(<<"Hel", "lo">>, "")>>))}

CancelBodies(vendor) ==
    {Body(lines, end) :
        lines \in UNION {[1..k -> CancelLines(vendor)] : k \in 0..MaxLines},
        end \in {"eof", "readerr"}}

\* the outcome of the call in flight when the exchange comes to net
CallOutcome(net) ==
    IF direct.op = "Completion"
    THEN Completion(registeredProviders, direct.modelID, Messages, <<>>, net)
    ELSE CompletionStream(registeredProviders, direct.modelID, Messages, <<>>, net)

\* llm.Completion(ctx, ...) or llm.CompletionStream(ctx, ...) is called, with
\* a token that is live or cancelled already, and reaches client.Do
CancelCallBegin ==
    /\ direct.pc = "idle"
    /\ ~stream.open
    /\ \E op \in {"Completion", "CompletionStream"}, modelID \in AdapterModelIDs,
          ctx \in {"live", "cancelled"}, net \in CancelNets :
         direct' = [pc |-> "do", op |-> op, modelID |-> modelID, ctx |-> ctx,
                    early |-> (ctx = "cancelled"), net |-> net, out |-> <<>>]
    /\ UNCHANGED <<registeredProviders, providerMu, goroutines, history, router,
                   routeCall, stream>>

\* cancel(): the caller cancels the token of the call in flight
CancelCall ==
    /\ direct.pc \in {"do", "read"}
    /\ direct.ctx = "live"
    /\ direct' = [direct EXCEPT !.ctx = "cancelled", !.early = TRUE]
    /\ UNCHANGED <<registeredProviders, providerMu, goroutines, history, router,
                   routeCall, stream>>

\* resp, err := p.client.Do(httpReq) returns with the token live: Completion
\* goes on to read the body, CompletionStream checks the status and returns
\* the stream, bound to the body and to the token
DoAnswered ==
    /\ direct.pc = "do"
    /\ direct.ctx = "live"
    /\ IF direct.op = "Completion" /\ direct.net.status # "transport"
       THEN /\ direct' = [direct EXCEPT !.pc = "read"]
            /\ UNCHANGED stream
       ELSE LET out == CallOutcome(direct.net) IN
            /\ direct' = [direct EXCEPT !.pc = "returned", !.out = out]
            /\ IF direct.op = "CompletionStream" /\ out.err = NoError
               THEN \E body \in CancelBodies(out.invoked[1].provider.vendor) :
                       stream' = [open |-> TRUE, adapter |-> out.invoked[1].provider,
                                  body |-> body, s |-> NewStream(out.stream, body),
                                  results |-> <<>>, closes |-> <<>>,
                                  pending |-> FALSE, early |-> FALSE]
               ELSE UNCHANGED stream
    /\ UNCHANGED <<registeredProviders, providerMu, goroutines, history, router,
                   routeCall>>

\* client.Do returns the context's error: the token is cancelled
DoCancelled ==
    /\ direct.pc = "do"
    /\ direct.ctx = "cancelled"
    /\ direct' = [direct EXCEPT !.pc = "returned",
                                !.out = CallOutcome(Net("transport", ""))]
    /\ UNCHANGED <<registeredProviders, providerMu, goroutines, history, router,
                   routeCall, stream>>

\* body, err := io.ReadAll(resp.Body) returns with the token live; the status
\* check, the parse and the translation follow without blocking
ReadAnswered ==
    /\ direct.pc = "read"
    /\ direct.ctx = "live"
    /\ direct' = [direct EXCEPT !.pc = "returned", !.out = CallOutcome(direct.net)]
    /\ UNCHANGED <<registeredProviders, providerMu, goroutines, history, router,
                   routeCall, stream>>

\* io.ReadAll returns the context's error: the token is cancelled
ReadCancelled ==
    /\ direct.pc = "read"
    /\ direct.ctx = "cancelled"
    /\ direct' = [direct EXCEPT !.pc = "returned", !.out = CallOutcome(Net("read", ""))]
    /\ UNCHANGED <<registeredProviders, providerMu, goroutines, history, router,
                   routeCall, stream>>

\* cancel(): the caller cancels the token the stream was opened with
CancelStream ==
    /\ stream.open
    /\ ~stream.s.reader.cancelled
    /\ stream' = [stream EXCEPT !.s.reader.cancelled = TRUE,
                                !.early = stream.pending]
    /\ UNCHANGED <<registeredProviders, providerMu, goroutines, history, direct, router,
                   routeCall>>

\* stream.Recv() is called
RecvCall ==
    /\ stream.open
    /\ ~stream.pending
    /\ Len(stream.results) < MaxLines + 2
    /\ stream' = [stream EXCEPT !.pending = TRUE, !.early = stream.s.reader.cancelled]
    /\ UNCHANGED <<registeredProviders, providerMu, goroutines, history, direct, router,
                   routeCall>>

\* n, err := b.reader.Read(buffer) fills the buffer with what has arrived: the
\* read that delivered the last line a Recv consumed may have delivered the
\* k lines after it as well, which then wait in the buffer
AfterRead(before, after, k) ==
    IF Len(before.lines) - Len(after.lines) > before.buffered
    THEN [after EXCEPT !.buffered = IF k < Len(after.lines) THEN k ELSE Len(after.lines)]
    ELSE after

\* the state of the stream when the pending Recv returns r
Received(r, reader) ==
    [stream EXCEPT
       !.s = [r.s EXCEPT !.reader = reader],
       !.pending = FALSE,
       !.results = Append(@, [resp |-> r.resp, err |-> r.err,
                              left |-> Len(r.s.reader.lines), early |-> stream.early])]

\* the pending Recv returns with the token live
RecvAnswered ==
    /\ stream.open
    /\ stream.pending
    /\ ~stream.s.reader.cancelled
    /\ LET r == StreamRecvOf(stream.adapter.vendor, stream.s) IN
       \E k \in 0..Len(r.s.reader.lines) :
          stream' = Received(r, AfterRead(stream.s.reader, r.s.reader, k))
    /\ UNCHANGED <<registeredProviders, providerMu, goroutines, history, direct, router,
                   routeCall>>

\* the pending Recv returns with the token cancelled
RecvCancelled ==
    /\ stream.open
    /\ stream.pending
    /\ stream.s.reader.cancelled
    /\ LET r == StreamRecvOf(stream.adapter.vendor, stream.s) IN
       stream' = Received(r, r.s.reader)
    /\ UNCHANGED <<registeredProviders, providerMu, goroutines, history, direct, router,
                   routeCall>>

CancelNext ==
    \/ CancelCallBegin \/ CancelCall \/ DoAnswered \/ DoCancelled \/ ReadAnswered
    \/ ReadCancelled \/ AdapterDone \/ CancelStream \/ RecvCall \/ RecvAnswered
    \/ RecvCancelled \/ CloseStream

\* net/http returns from client.Do and from a read of the body once the
\* request's context is cancelled; a Recv that needs no read returns as well
SpecCancel ==
    /\ StreamInit
    /\ [][CancelNext]_vars
    /\ WF_vars(DoCancelled)
    /\ WF_vars(ReadCancelled)
    /\ WF_vars(RecvCancelled)

----------------------------------------------------------------------------
(* Program start.  The Go runtime runs the init() of every imported         *)
(* package before main; importing gollm imports the three adapters, whose   *)
(* init() registers NewProvider(), which reads the vendor's API-key         *)
(* variable from the environment.  main then sets variables and calls.      *)

\* the adapters package providers imports, and each one's API-key variable
Adapters == {"openai", "anthropic", "google"}

\* the values of an API-key variable: unset, set by the process's
\* environment, set by main
EnvKey == "sk-env"
MainKey == "sk-main"

\* NewProvider(): apiKey := os.Getenv("<VENDOR>_API_KEY"); return
\* NewProviderWithKey(apiKey).  os.Getenv gives "" for a variable not set
NewProvider(vendor, env) == NewProviderWithKey(vendor, env[vendor])

\* the runtime starts the program: nothing registered, the environment as the
\* process was given it, every adapter's init() still to run
StartupInit ==
    /\ registeredProviders = EmptyRegistry
    /\ providerMu = Unlocked
    /\ goroutines = NoGoroutines
    /\ history = NoHistory
    /\ \E env \in [Adapters -> {"", EnvKey}] :
          direct = [pc |-> "init", env |-> env, toInit |-> Adapters, set |-> {},
                    modelID |-> <<>>, out |-> <<>>]
    /\ router = NoRouter
    /\ routeCall = NoRouteCall
    /\ stream = NoStream

\* func init() { Initialize() }: provider := NewProvider();
\* llm.RegisterProvider(provider)
PackageInit ==
    /\ direct.pc = "init"
    /\ \E vendor \in direct.toInit :
         LET provider == NewProvider(vendor, direct.env) IN
         /\ registeredProviders' = MapStore(registeredProviders, Name(provider), provider)
         /\ direct' = [direct EXCEPT !.toInit = @ \ {vendor}]
    /\ UNCHANGED <<providerMu, goroutines, history, router, routeCall, stream>>

\* every init() has run: main starts
MainStart ==
    /\ direct.pc = "init"
    /\ direct.toInit = {}
    /\ direct' = [direct EXCEPT !.pc = "main"]
    /\ UNCHANGED <<registeredProviders, providerMu, goroutines, history, router,
                   routeCall, stream>>

\* os.Setenv("<VENDOR>_API_KEY", "your-key") at the start of main
Setenv ==
    /\ direct.pc = "main"
    /\ \E vendor \in Adapters \ direct.set :
         direct' = [direct EXCEPT !.env[vendor] = MainKey, !.set = @ \cup {vendor}]
    /\ UNCHANGED <<registeredProviders, providerMu, goroutines, history, router,
                   routeCall, stream>>

\* gollm.Completion(ctx, modelID, messages): the first call of main
MainCompletion ==
    /\ direct.pc = "main"
    /\ \E modelID \in AdapterModelIDs, net \in {Net("ok", "id-1"), Net("status", "")} :
         direct' = [direct EXCEPT
                      !.pc = "returned", !.modelID = modelID,
                      !.out = Completion(registeredProviders, modelID, Messages, <<>>, net)]
    /\ UNCHANGED <<registeredProviders, providerMu, goroutines, history, router,
                   routeCall, stream>>

StartupNext == PackageInit \/ MainStart \/ Setenv \/ MainCompletion

SpecStartup == StartupInit /\ [][StartupNext]_vars

----------------------------------------------------------------------------
(* Request translation: the JSON body each adapter builds from the          *)
(* canonical request.  A body is a record of the fields of the vendor's     *)
(* request struct; a pointer field tagged omitempty that is nil is left out *)
(* of the JSON, and is Nil here.                                            *)

\* mutant of getModelMaxTokensParam: only the undated model names count
getModelMaxTokensParamUndated(model) ==
    IF model \in {<<m>> : m \in {"o1", "o1-mini", "o3-mini", "o4-mini"}}
    THEN "max_completion_tokens"
    ELSE "max_tokens"

\* getModelMaxTokensParam: completionTokenModels[model]
getModelMaxTokensParam(model) ==
    IF model \in {<<m>> : m \in {"o1", "o1-mini", "o3-mini", "o3-mini-2025-01-31",
                                 "o4-mini", "o4-mini-2025-04-16", "o1-mini-2024-09-12",
                                 "o1-preview", "o1-preview-2024-09-12", "o1-2024-12-17"}}
    THEN "max_completion_tokens"
    ELSE "max_tokens"

\* openAIRequest as Completion and CompletionStream fill it: the messages
\* copied one to one, the caller's MaxTokens under the field of the model
OpenAIRequest(req) ==
    LET param == getModelMaxTokensParam(req.Model) IN
    [model |-> req.Model,
     messages |-> [i \in 1..Len(req.Messages) |->
                      [role |-> req.Messages[i].Role, content |-> req.Messages[i].Content]],
     max_tokens |-> IF param = "max_completion_tokens" THEN Nil ELSE req.MaxTokens,
     max_completion_tokens |->
        IF param = "max_completion_tokens" /\ req.MaxTokens # Nil THEN req.MaxTokens
        ELSE Nil,
     stream |-> req.Stream]

\* mutant of AnthropicRole: the role is passed on as it is
AnthropicRoleVerbatim(role) == role

\* convertMessages: role := msg.Role; assistant stays, everything else is user
AnthropicRole(role) == IF role = "assistant" THEN "assistant" ELSE "user"

\* convertMessages: the message list without the system messages, and the
\* content of the last system message
RECURSIVE convertMessages(_)
convertMessages(messages) ==
    IF messages = <<>> THEN [messages |-> <<>>, system |-> ""]
    ELSE LET before == convertMessages(SubSeq(messages, 1, Len(messages) - 1))
             msg == messages[Len(messages)] IN
         IF msg.Role = "system" THEN [before EXCEPT !.system = msg.Content]
         ELSE [before EXCEPT !.messages = Append(@, [role |-> AnthropicRole(msg.Role),
                                                     content |-> msg.Content])]

\* anthropicRequest as Completion and CompletionStream fill it
AnthropicRequest(req) ==
    LET converted == convertMessages(req.Messages) IN
    [model |-> req.Model, messages |-> converted.messages, system |-> converted.system,
     max_tokens |-> IF req.MaxTokens # Nil THEN req.MaxTokens[1] ELSE 4096,
     stream |-> req.Stream]

\* convertMessagesToGeminiFormat: assistant becomes model, every other role user
GeminiRole(role) == IF role = "assistant" THEN "model" ELSE "user"

\* the content of the first system message, "" without one
RECURSIVE FirstSystemMessage(_)
FirstSystemMessage(messages) ==
    IF messages = <<>> THEN ""
    ELSE IF Head(messages).Role = "system" THEN Head(messages).Content
    ELSE FirstSystemMessage(Tail(messages))

\* one geminiContent with a single text part
GeminiContent(role, text) == [role |-> role, parts |-> <<text>>]

RECURSIVE GeminiContents(_)
GeminiContents(messages) ==
    IF messages = <<>> THEN <<>>
    ELSE IF Head(messages).Role = "system" THEN GeminiContents(Tail(messages))
    ELSE <<GeminiContent(GeminiRole(Head(messages).Role), Head(messages).Content)>>
         \o GeminiContents(Tail(messages))

\* convertMessagesToGeminiFormat: a leading user entry with the first system
\* message when it has text, then the messages that are not system messages
convertMessagesToGeminiFormat(messages) ==
    LET systemMessage == FirstSystemMessage(messages) IN
    (IF systemMessage # "" THEN <<GeminiContent("user", systemMessage)>> ELSE <<>>)
    \o GeminiContents(messages)

\* geminiRequest as Completion and CompletionStream fill it
GeminiRequest(req) ==
    [contents |-> convertMessagesToGeminiFormat(req.Messages),
     generationConfig |-> [temperature |-> req.Temperature,
                           maxOutputTokens |-> req.MaxTokens, topP |-> req.TopP],
     stream |-> req.Stream]

\* reqBody, err := json.Marshal(...): the body the adapter sends for req
ProviderWire(p, req) ==
    CASE p.vendor = "openai" -> OpenAIRequest(req)
      [] p.vendor = "anthropic" -> AnthropicRequest(req)
      [] p.vendor = "google" -> GeminiRequest(req)

\* the calls whose bodies are looked at: every model of the openai allow-list
\* and a model of each other adapter, conversations of up to MaxMsgs messages
\* over the roles and three texts, with and without a max-tokens option
WireModelIDs ==
    {<<"openai", Slash>> \o m : m \in OpenAIModelList}
    \cup {<<"anthropic", Slash, "claude-3-opus-20240229">>,
          <<"google", Slash, "gemini-1.5-pro">>}
WireMessages ==
    {Message(role, content) : role \in {"system", "user", "assistant", "tool"},
                              content \in {"", "Be brief", "Hi"}}
WireMessageLists == UNION {[1..k -> WireMessages] : k \in 0..MaxMsgs}
WireOptionLists == {<<>>, <<WithMaxTokens(100)>>}

\* llm.Completion or llm.CompletionStream, with the body the adapter sent
WireCall ==
    /\ direct.pc = "idle"
    /\ \E op \in {"Completion", "CompletionStream"}, modelID \in WireModelIDs,
          messages \in WireMessageLists, opts \in WireOptionLists :
         LET out == IF op = "Completion"
                    THEN Completion(registeredProviders, modelID, messages, opts,
                                    Net("ok", "id-1"))
                    ELSE CompletionStream(registeredProviders, modelID, messages, opts,
                                          Net("ok", "id-1")) IN
         direct' = [pc |-> "returned", op |-> op, modelID |-> modelID,
                    messages |-> messages, opts |-> opts, out |-> out,
                    wire |-> ProviderWire(out.invoked[1].provider, out.invoked[1].req)]
    /\ UNCHANGED <<registeredProviders, providerMu, goroutines, history, router,
                   routeCall, stream>>

WireNext == WireCall \/ AdapterDone

SpecWire == StreamInit /\ [][WireNext]_vars

----------------------------------------------------------------------------
(* SupportsModel among the other operations: registrations, completions and *)
(* streams go on, and callers ask registered providers about model names.   *)
(* history keeps the answers given and counts the HTTP requests sent.       *)

\* the providers callers register after start-up, and the names asked about
SupportsProviders ==
    {NewProviderWithKey("openai", "sk"), NewProviderWithKey("openai", ""),
     NewProviderWithKey("mock", "sk")}
SupportsModels == {<<"gpt-4o">>, <<"x">>}

SupportsInit ==
    /\ registeredProviders = StreamRegistry
    /\ providerMu = Unlocked
    /\ goroutines = NoGoroutines
    /\ history = [answers |-> {}, sent |-> 0]
    /\ direct = NoDirect
    /\ router = NoRouter
    /\ routeCall = NoRouteCall
    /\ stream = NoStream

\* llm.RegisterProvider(provider)
SupportsRegister ==
    /\ \E provider \in SupportsProviders :
         registeredProviders' = MapStore(registeredProviders, Name(provider), provider)
    /\ UNCHANGED <<providerMu, goroutines, history, direct, router, routeCall, stream>>

\* llm.Completion or llm.CompletionStream: the requests it sends are counted
SupportsCompletion ==
    /\ direct.pc = "idle"
    /\ \E op \in {"Completion", "CompletionStream"}, modelID \in AdapterModelIDs,
          net \in {Net("ok", "id-1"), Net("status", "")} :
         LET out == IF op = "Completion"
                    THEN Completion(registeredProviders, modelID, Messages, <<>>, net)
                    ELSE CompletionStream(registeredProviders, modelID, Messages, <<>>, net) IN
         /\ history.sent + out.sent <= MaxSent
         /\ direct' = [pc |-> "returned", op |-> op, modelID |-> modelID, out |-> out]
         /\ history' = [history EXCEPT !.sent = @ + out.sent]
    /\ UNCHANGED <<registeredProviders, providerMu, goroutines, router, routeCall, stream>>

\* provider.SupportsModel(model) on a registered provider: the loop over
\* p.modelList reads and returns; the answer is noted
SupportsModelCall ==
    /\ \E name \in DOMAIN registeredProviders, model \in SupportsModels :
         history' = [history EXCEPT
                       !.answers = @ \cup {[name |-> name, model |-> model,
                                            ok |-> SupportsModel(registeredProviders[name],
                                                                 model)]}]
    /\ UNCHANGED <<registeredProviders, providerMu, goroutines, direct, router, routeCall,
                   stream>>

SupportsNext == SupportsRegister \/ SupportsCompletion \/ AdapterDone \/ SupportsModelCall

SpecSupports == SupportsInit /\ [][SupportsNext]_vars

----------------------------------------------------------------------------
(* The line reader, byte by byte.  A body is a sequence of bytes that the   *)
(* connection delivers in reads of one or more bytes each; the bytes are    *)
(* the newline, "d" for the data prefix of an event line, and "x" for any   *)
(* other byte.  bufReader holds the connection and the buffer buf.          *)

Newline == "\n"
Bytes == {Newline, "d", "x"}

\* every way of cutting bytes into reads of at least one byte
RECURSIVE Splits(_)
Splits(bytes) ==
    IF bytes = <<>> THEN {<<>>}
    ELSE UNION {{<<SubSeq(bytes, 1, k)>> \o rest :
                    rest \in Splits(SubSeq(bytes, k + 1, Len(bytes)))} :
                k \in 1..Len(bytes)}

\* newBufReader(resp.Body): the reads the body will deliver, an empty buffer
newBufReader(reads, end) == [reads |-> reads, end |-> end, buf |-> <<>>]

\* bytes.TrimSpace: leading and trailing white space removed
RECURSIVE TrimSpace(_)
TrimSpace(line) ==
    IF line = <<>> THEN line
    ELSE IF Head(line) = Newline THEN TrimSpace(Tail(line))
    ELSE IF line[Len(line)] = Newline THEN TrimSpace(SubSeq(line, 1, Len(line) - 1))
    ELSE line

\* the position of the first newline of buf, 0 without one
IndexNewline(buf) ==
    IF \E i \in 1..Len(buf) : buf[i] = Newline
    THEN CHOOSE i \in 1..Len(buf) :
            buf[i] = Newline /\ \A j \in 1..(i - 1) : buf[j] # Newline
    ELSE 0

\* what ReadLine returns: the reader afterwards, the line, the error
LineRead(b, line, err) == [b |-> b, line |-> line, err |-> err]

\* bufReader.ReadLine.  line, err := b.buf.ReadBytes('\n') takes the bytes up
\* to the newline out of the buffer, or, without a newline, all of them (err
\* is io.EOF then, and line holds them).  Then the body is read: n == 0 ends
\* the loop with what line holds; otherwise the bytes read are written to the
\* buffer and the loop starts again, assigning line anew
RECURSIVE ReadLineBytes(_)
ReadLineBytes(b) ==
    LET i == IndexNewline(b.buf) IN
    IF i > 0
    THEN LineRead([b EXCEPT !.buf = SubSeq(@, i + 1, Len(@))],
                  TrimSpace(SubSeq(b.buf, 1, i)), NoError)
    ELSE LET line == b.buf
             drained == [b EXCEPT !.buf = <<>>] IN
         IF b.reads = <<>>
         THEN IF b.end = "readerr" THEN LineRead(drained, <<>>, ErrRead)
              ELSE IF Len(line) > 0 THEN LineRead(drained, TrimSpace(line), NoError)
              ELSE LineRead(drained, <<>>, EOF)
         ELSE ReadLineBytes([drained EXCEPT !.buf = Head(b.reads),
                                            !.reads = Tail(b.reads)])

\* the bodies read: every byte sequence of up to MaxBytes bytes
ByteBodies == UNION {[1..n -> Bytes] : n \in 0..MaxBytes}

\* two connections deliver the same bytes, one in a single read and one cut
\* into reads in some way; each has its line reader
ReaderInit ==
    /\ registeredProviders = EmptyRegistry
    /\ providerMu = Unlocked
    /\ goroutines = NoGoroutines
    /\ history = NoHistory
    /\ direct = NoDirect
    /\ router = NoRouter
    /\ routeCall = NoRouteCall
    /\ \E bytes \in ByteBodies, end \in {"eof", "readerr"} :
       \E reads \in Splits(bytes) :
          stream = [bytes |-> bytes,
                    single |-> newBufReader(IF bytes = <<>> THEN <<>> ELSE <<bytes>>, end),
                    split |-> newBufReader(reads, end),
                    singleLines |-> <<>>, splitLines |-> <<>>]

\* line, err := s.reader.ReadLine(), on both connections
ReaderReadLine ==
    /\ Len(stream.splitLines) < MaxBytes + 1
    /\ LET one == ReadLineBytes(stream.single)
           cut == ReadLineBytes(stream.split) IN
       stream' = [stream EXCEPT
                    !.single = one.b, !.split = cut.b,
                    !.singleLines = Append(@, [line |-> one.line, err |-> one.err]),
                    !.splitLines = Append(@, [line |-> cut.line, err |-> cut.err])]
    /\ UNCHANGED <<registeredProviders, providerMu, goroutines, history, direct, router,
                   routeCall>>

ReaderNext == ReaderReadLine

SpecReader == ReaderInit /\ [][ReaderNext]_vars

----------------------------------------------------------------------------
(* Start events of an anthropic stream: the connection may carry any number *)
(* of message_start events, with or without a message, between the content  *)
(* events                                                                   *)

\* the events of an anthropic stream that bear on the id of its chunks
StartLines ==
    {DataLine(Done),
     DataLine(AnthropicEvent("message_start", "msg_1", Nil, Nil)),
     DataLine(AnthropicEvent("message_start", "msg_2", Nil, Nil)),
     DataLine(AnthropicEvent("message_start", "", Nil, Nil)),
     DataLine(AnthropicEvent("content_block_delta", "", Nil, AnthropicDelta("Hi", "")))}

StartBodies ==
    {Body(lines, end) :
        lines \in UNION {[1..k -> StartLines] : k \in 0..MaxStartLines},
        end \in {"eof", "readerr"}}

\* stream, err := llm.CompletionStream(ctx, "anthropic/...", ...)
OpenStartStream ==
    /\ direct.pc = "idle"
    /\ ~stream.open
    /\ \E modelID \in {<<"anthropic", Slash, "claude-3-opus-20240229">>} :
         LET out == CompletionStream(registeredProviders, modelID, Messages, <<>>,
                                     Net("ok", "id-1"))
             adapter == out.invoked[1].provider IN
         \E body \in StartBodies :
            stream' = [open |-> TRUE, adapter |-> adapter, body |-> body,
                       s |-> NewStream(out.stream, body), results |-> <<>>,
                       closes |-> <<>>]
    /\ UNCHANGED <<registeredProviders, providerMu, goroutines, history, direct, router,
                   routeCall>>

StartNext == OpenStartStream \/ RecvNext \/ CloseStream

SpecStartEvents == StreamInit /\ [][StartNext]_vars

----------------------------------------------------------------------------
(* Completions in flight.  Goroutines 1..MaxCompleters call Completion or   *)
(* CompletionStream: the resolution runs under the read lock, and the       *)
(* adapter is called after getProviderForModel has returned.  The adapter's *)
(* call waits for the network and may never return.  One more goroutine     *)
(* calls RegisterProvider.                                                  *)

Completers == 1..MaxCompleters
Registrar == MaxCompleters + 1

\* what the completions are called with, and what is registered meanwhile
CompletedByCallers == {<<"openai", "/", "gpt-4o">>}
RegisteredInFlight == {NewProviderWithKey("mock", "sk")}

InFlightInit ==
    /\ registeredProviders = StreamRegistry
    /\ providerMu = Unlocked
    /\ goroutines = [g \in Completers \cup {Registrar} |-> Idle]
    /\ history = NoHistory
    /\ direct = NoDirect
    /\ router = NoRouter
    /\ routeCall = NoRouteCall
    /\ stream = NoStream

\* llm.Completion / llm.CompletionStream is called: provider, modelName, err :=
\* getProviderForModel(modelID), which parses the id before it takes the lock
CompletionCall(g) ==
    /\ goroutines[g].pc = "idle"
    /\ \E op \in {"Completion", "CompletionStream"}, modelID \in CompletedByCallers :
         LET parsed == parseModelIdentifier(modelID) IN
         goroutines' = [goroutines EXCEPT ![g] =
             IF parsed.err # NoError
             THEN [pc |-> "Return", op |-> op, arg |-> modelID,
                   out |-> [provider |-> NilProvider, modelName |-> <<>>,
                            err |-> parsed.err]]
             ELSE [pc |-> "RLock", op |-> op, arg |-> modelID, out |-> <<>>]]
    /\ UNCHANGED <<registeredProviders, providerMu, history, Unused>>

\* getProviderForModel has returned: if err != nil { return nil, err }, else
\* the request is built and provider.Completion(ctx, req) /
\* provider.CompletionStream(ctx, req) is called
AdapterCall(g) ==
    /\ goroutines[g].pc = "Return"
    /\ goroutines' = [goroutines EXCEPT ![g] =
                         IF goroutines[g].out.err # NoError THEN Idle
                         ELSE [@ EXCEPT !.pc = "InFlight"]]
    /\ UNCHANGED <<registeredProviders, providerMu, history, Unused>>

\* the adapter's call returns, and Completion / CompletionStream with it
AdapterReturn(g) ==
    /\ goroutines[g].pc = "InFlight"
    /\ goroutines' = [goroutines EXCEPT ![g] = Idle]
    /\ UNCHANGED <<registeredProviders, providerMu, history, Unused>>

\* llm.RegisterProvider(provider) is called while completions run
RegisterInFlightCall(g) ==
    /\ goroutines[g].pc = "idle"
    /\ \E p \in RegisteredInFlight :
         goroutines' = [goroutines EXCEPT ![g] =
                           [pc |-> "Lock", op |-> "RegisterProvider", arg |-> p,
                            out |-> <<>>]]
    /\ UNCHANGED <<registeredProviders, providerMu, history, Unused>>

InFlightNext ==
    \/ \E g \in Completers :
          \/ CompletionCall(g)
          \/ RLock(g)
          \/ Read(g)
          \/ RUnlock(g)
          \/ AdapterCall(g)
          \/ AdapterReturn(g)
    \/ RegisterInFlightCall(Registrar)
    \/ LockAnnounce(Registrar)
    \/ LockAcquire(Registrar)
    \/ StoreBegin(Registrar)
    \/ StoreEnd(Registrar)
    \/ Unlock(Registrar)

\* every step of a call that is not a wait for the network is taken in the
\* end; a goroutine blocked in RLock is let in when the writer unlocks, before
\* a later writer gets the lock (sync.RWMutex); nothing makes an adapter's
\* call return, and nothing makes a caller call
InFlightFairness ==
    /\ \A g \in Completers :
          /\ SF_vars(RLock(g))
          /\ WF_vars(Read(g))
          /\ WF_vars(RUnlock(g))
          /\ WF_vars(AdapterCall(g))
    /\ WF_vars(LockAnnounce(Registrar))
    /\ WF_vars(LockAcquire(Registrar))
    /\ WF_vars(StoreBegin(Registrar))
    /\ WF_vars(StoreEnd(Registrar))
    /\ WF_vars(Unlock(Registrar))

SpecInFlight == InFlightInit /\ [][InFlightNext]_vars /\ InFlightFairness

----------------------------------------------------------------------------
(* Claims about resolution, checked under SpecDirect *)

\* the text before / after the first separator of an id that has one
HasSlash(id) == \E i \in 1..Len(id) : id[i] = Slash
BeforeFirstSlash(id) ==
    CHOOSE s \in {SubSeq(id, 1, i - 1) : i \in 1..Len(id)} :
        /\ ~HasSlash(s)
        /\ Len(s) < Len(id)
        /\ id[Len(s) + 1] = Slash
AfterFirstSlash(id) == SubSeq(id, Len(BeforeFirstSlash(id)) + 2, Len(id))

\* the error the claim expects of resolving id against the registry
ExpectedResolveError(registry, id) ==
    IF ~HasSlash(id) THEN ErrInvalidIdentifier
    ELSE IF BeforeFirstSlash(id) \notin DOMAIN registry THEN ErrProviderNotFound
    ELSE IF AfterFirstSlash(id) \notin registry[BeforeFirstSlash(id)].modelList
    THEN ErrModelUnsupported
    ELSE NoError

DirectResultIsNil ==
    IF direct.op = "Completion" THEN direct.out.resp = NilResponse
    ELSE direct.out.stream = NilStream

\* C7: resolving an id without '/' fails with InvalidIdentifier, otherwise with
\* ProviderNotFound when the text before the first '/' is not registered,
\* otherwise with ModelUnsupported when that provider rejects the rest; in each
\* of these cases Completion and CompletionStream return that error and nothing
\* else, no adapter is invoked and no option is applied.
C7_ResolutionErrors ==
    direct.pc = "returned" =>
        LET expected == ExpectedResolveError(registeredProviders, direct.modelID) IN
        /\ expected # NoError =>
              /\ direct.out.err = expected
              /\ DirectResultIsNil
              /\ direct.out.invoked = <<>>
              /\ direct.out.applied = 0
        /\ expected = NoError => direct.out.err \notin ResolutionErrors

\* C7 witness: CompletionStream of "openai/x" with two options against a
\* registry holding openai has returned ModelUnsupported
C7_Witness ==
    /\ direct.pc = "returned"
    /\ direct.op = "CompletionStream"
    /\ direct.modelID = <<"openai", "/", "x">>
    /\ Len(direct.opts) = 2
    /\ <<"openai">> \in DOMAIN registeredProviders
    /\ direct.out.err = ErrModelUnsupported

\* C8: when resolution succeeds the adapter invoked is the provider registered
\* under the text before the first '/', and the request it is handed has Model
\* equal to all the text after the first '/', further '/' included, never the
\* qualified id.
C8_FirstSlashSplit ==
    (direct.pc = "returned" /\ direct.out.err \notin ResolutionErrors) =>
        /\ Len(direct.out.invoked) = 1
        /\ BeforeFirstSlash(direct.modelID) \in DOMAIN registeredProviders
        /\ direct.out.invoked[1].provider =
              registeredProviders[BeforeFirstSlash(direct.modelID)]
        /\ direct.out.invoked[1].req.Model = AfterFirstSlash(direct.modelID)
        /\ direct.out.invoked[1].req.Model # direct.modelID

\* C8 witness: "mock/x/gpt-4o" has resolved to the mock provider with the model
\* "x/gpt-4o"
C8_Witness ==
    /\ direct.pc = "returned"
    /\ direct.modelID = <<"mock", "/", "x", "/", "gpt-4o">>
    /\ Len(direct.out.invoked) = 1
    /\ direct.out.invoked[1].provider.vendor = "mock"
    /\ direct.out.invoked[1].req.Model = <<"x", "/", "gpt-4o">>
    /\ direct.out.err = NoError

----------------------------------------------------------------------------
(* Claims about the router, checked under SpecRouter *)

Attempts == routeCall.attempts
Last(s) == s[Len(s)]
CandidateAttempts == {k \in 1..Len(Attempts) : Attempts[k].role = "candidate"}
FallbackAttempts == {k \in 1..Len(Attempts) : Attempts[k].role = "fallback"}

\* the places, in the list NewRouter was given, of the routes of the call's task type
RoutePositions ==
    {i \in 1..Len(router.routes) : router.routes[i].TaskType = routeCall.taskType}

InCall(op) == routeCall.pc # "idle" /\ routeCall.op = op
Returned(op) == routeCall.pc = "returned" /\ routeCall.op = op

\* attempt k went to candidate k of priority order: the attempts made so far are
\* candidates, each once, then at most one fallback
AttemptsWellFormed ==
    /\ \A k \in CandidateAttempts :
          /\ Attempts[k].pos \in RoutePositions
          /\ Attempts[k].modelID = router.routes[Attempts[k].pos].ModelID
    /\ \A k \in FallbackAttempts : Attempts[k].modelID = router.fallbackModel

\* C1: Route stops at the first success: once a candidate's Completion has
\* succeeded, Route has returned that candidate's response without error, and
\* no further candidate and not the fallback has been attempted.
C1_StopsAtFirstSuccess ==
    InCall("Route") =>
        \A k \in CandidateAttempts :
            Attempts[k].err = NoError =>
                /\ k = Len(Attempts)
                /\ routeCall.pc = "returned"
                /\ routeCall.err = NoError
                /\ routeCall.resp = Attempts[k].resp
                /\ routeCall.resp # NilResponse
                /\ routeCall.resp.ID = k

\* C1 witness: the first of two candidates succeeded and Route returned after
\* one attempt
C1_Witness ==
    /\ Returned("Route")
    /\ Len(routeCall.candidates) = 2
    /\ Len(Attempts) = 1
    /\ Attempts[1].role = "candidate"
    /\ routeCall.err = NoError

\* C2: a failed candidate never ends Route: Route returns only after a success
\* or after the fallback, and when the first candidate failed and the second
\* succeeded it returns the second candidate's response without error.
C2_FailureAdvances ==
    /\ Returned("Route") =>
          /\ Attempts # <<>>
          /\ Last(Attempts).err = NoError \/ Last(Attempts).role = "fallback"
    /\ InCall("Route") =>
          /\ AttemptsWellFormed
          /\ \A k \in 1..(Len(Attempts) - 1) : Attempts[k].err # NoError
          /\ (/\ Len(Attempts) >= 2
              /\ Attempts[1].err # NoError
              /\ Attempts[2].role = "candidate"
              /\ Attempts[2].err = NoError)
             => /\ routeCall.pc = "returned"
                /\ routeCall.err = NoError
                /\ routeCall.resp = Attempts[2].resp

\* C2 witness: the first candidate failed on its identifier, the second
\* succeeded and Route returned its response
C2_Witness ==
    /\ Returned("Route")
    /\ Len(Attempts) = 2
    /\ Attempts[1].err = ErrInvalidIdentifier
    /\ Attempts[2].role = "candidate"
    /\ Attempts[2].err = NoError
    /\ routeCall.resp = Attempts[2].resp

\* C3: in one Route call every candidate is attempted at most once and the
\* fallback at most once, so at most n+1 attempts for n candidates; the fallback
\* is attempted only when every candidate of the task type has failed (none, when
\* the task type has no route), never after a success, and a call that returns
\* with no successful candidate has attempted it exactly once.
C3_FallbackOnce ==
    InCall("Route") =>
        /\ Cardinality(FallbackAttempts) <= 1
        /\ \A j, k \in CandidateAttempts : Attempts[j].pos = Attempts[k].pos => j = k
        /\ Len(Attempts) <= Cardinality(RoutePositions) + 1
        /\ (\E k \in CandidateAttempts : Attempts[k].err = NoError) => FallbackAttempts = {}
        /\ FallbackAttempts # {} =>
              \A i \in RoutePositions :
                  \E k \in CandidateAttempts :
                      Attempts[k].pos = i /\ Attempts[k].err # NoError
        /\ (routeCall.pc = "returned"
              /\ \A k \in CandidateAttempts : Attempts[k].err # NoError)
           => Cardinality(FallbackAttempts) = 1

\* C3 witness: both candidates failed and the fallback was attempted, three
\* attempts in all
C3_Witness ==
    /\ Returned("Route")
    /\ Cardinality(RoutePositions) = 2
    /\ Cardinality(CandidateAttempts) = 2
    /\ Cardinality(FallbackAttempts) = 1
    /\ Len(Attempts) = 3

\* C4: when every candidate and the fallback failed, Route returns no response
\* and an error, and the error is the one the fallback attempt produced.
C4_FallbackError ==
    (Returned("Route") /\ \A k \in 1..Len(Attempts) : Attempts[k].err # NoError) =>
        /\ routeCall.resp = NilResponse
        /\ routeCall.err # NoError
        /\ Last(Attempts).role = "fallback"
        /\ routeCall.err = Last(Attempts).err

\* C4 witness: a candidate failed with one error, the fallback with another,
\* and Route returned the fallback's
C4_Witness ==
    /\ Returned("Route")
    /\ Len(Attempts) >= 2
    /\ \A k \in 1..Len(Attempts) : Attempts[k].err # NoError
    /\ Attempts[1].err # Last(Attempts).err
    /\ routeCall.err = Last(Attempts).err

\* C5: candidates are attempted by descending priority, and candidates of equal
\* priority in the order they were given to the router.
C5_PriorityOrder ==
    InCall("Route") =>
        \A j, k \in CandidateAttempts :
            j < k =>
                LET rj == router.routes[Attempts[j].pos]
                    rk == router.routes[Attempts[k].pos] IN
                /\ rj.Priority >= rk.Priority
                /\ rj.Priority = rk.Priority => Attempts[j].pos < Attempts[k].pos

\* C5 witness: two candidates of equal priority were attempted, the one given
\* to the router first going first
C5_Witness ==
    /\ InCall("Route")
    /\ Len(Attempts) >= 2
    /\ Attempts[1].role = "candidate"
    /\ Attempts[2].role = "candidate"
    /\ router.routes[Attempts[1].pos].Priority = router.routes[Attempts[2].pos].Priority
    /\ Attempts[1].pos < Attempts[2].pos

\* what C1..C5 say of Route, said of RouteStream and the stream handle
StreamSelection ==
    InCall("RouteStream") =>
        /\ AttemptsWellFormed
        /\ \A k \in 1..Len(Attempts) :
              Attempts[k].err = NoError =>
                  /\ k = Len(Attempts)
                  /\ routeCall.pc = "returned"
                  /\ routeCall.err = NoError
                  /\ routeCall.stream = Attempts[k].stream
                  /\ routeCall.stream # NilStream
        /\ \A k \in 1..Len(Attempts) :
              (Attempts[k].role = "fallback" \/ Attempts[k].err = NoError)
                  => k = Len(Attempts)
        /\ routeCall.pc = "returned" =>
              /\ Attempts # <<>>
              /\ Last(Attempts).err = NoError \/ Last(Attempts).role = "fallback"
              /\ routeCall.err = Last(Attempts).err
        /\ Cardinality(FallbackAttempts) <= 1
        /\ FallbackAttempts # {} =>
              \A i \in RoutePositions :
                  \E k \in CandidateAttempts :
                      Attempts[k].pos = i /\ Attempts[k].err # NoError
        /\ \A j, k \in CandidateAttempts :
              j < k =>
                  LET rj == router.routes[Attempts[j].pos]
                      rk == router.routes[Attempts[k].pos] IN
                  /\ rj.Priority >= rk.Priority
                  /\ rj.Priority = rk.Priority => Attempts[j].pos < Attempts[k].pos
        /\ stream.open =>
              /\ routeCall.pc = "returned"
              /\ routeCall.stream # NilStream

\* C6: RouteStream selects as Route does, on stream-open results only: once a
\* CompletionStream has returned a handle RouteStream returns it, and no Recv on
\* it, failed or not, makes RouteStream attempt another candidate or the fallback.
C6_StreamOpenOnly ==
    /\ []StreamSelection
    /\ [][(stream.open /\ stream'.open /\ stream'.recvs > stream.recvs)
            => routeCall' = routeCall]_vars

\* C6 witness: the first candidate failed to open, the second opened, and a
\* Recv on the returned handle failed
C6_Witness ==
    /\ Returned("RouteStream")
    /\ Len(Attempts) = 2
    /\ Attempts[1].err # NoError
    /\ Attempts[2].role = "candidate"
    /\ stream.open
    /\ stream.recvs = 2
    /\ stream.err \in {ErrRead, ErrParseStream}

----------------------------------------------------------------------------
(* Claims about the registry, checked under SpecRegistry *)

InWriteSection(g) == goroutines[g].pc \in {"Store", "Storing", "Unlock"}
InReadSection(g) == goroutines[g].pc \in {"Read", "RUnlock"}
Registering(g) == goroutines[g].op = "RegisterProvider"

\* the name a reading call looks up
LookedUp(g) ==
    IF goroutines[g].op = "GetProvider" THEN goroutines[g].arg
    ELSE BeforeFirstSlash(goroutines[g].arg)

\* the provider a reading call found, NilProvider when it found none
Found(g) ==
    IF goroutines[g].op = "GetProvider" THEN goroutines[g].out.provider
    ELSE IF goroutines[g].out.err = ErrProviderNotFound THEN NilProvider
    ELSE IF goroutines[g].out.err = ErrModelUnsupported
    THEN registeredProviders[LookedUp(g)]
    ELSE goroutines[g].out.provider

\* C9: registration is exclusive and lookups are atomic: no two registrations
\* are in the table at once and none while a lookup reads it, and a lookup of a
\* name returns a whole provider: the one registered last before it, which
\* a registration overlapping the lookup may just have stored; never a partly
\* written entry and never nothing for a name that has been registered.
C9_AtomicLookups ==
    /\ \A g, h \in Goroutines : (InWriteSection(g) /\ InWriteSection(h)) => g = h
    /\ \A g, h \in Goroutines : ~(InWriteSection(g) /\ InReadSection(h))
    /\ \A g \in Goroutines :
          (goroutines[g].pc = "RUnlock"
              /\ goroutines[g].op \in {"GetProvider", "getProviderForModel"})
          => /\ Found(g) # PartialEntry
             /\ LookedUp(g) \in DOMAIN history.registered =>
                   /\ Found(g) = history.registered[LookedUp(g)]
                   /\ Found(g) \in Providers
                   /\ Name(Found(g)) = LookedUp(g)
             /\ LookedUp(g) \notin DOMAIN history.registered => Found(g) = NilProvider

\* C9 witness: GetProvider("openai") has read the keyed provider stored before
\* it while another goroutine, registering a second openai provider, waits in
\* Lock for the reader to leave
C9_Witness ==
    \E g, h \in Goroutines :
        /\ goroutines[g].pc = "RUnlock"
        /\ goroutines[g].op = "GetProvider"
        /\ goroutines[g].out.ok
        /\ goroutines[g].out.provider = NewProviderWithKey("openai", "sk")
        /\ goroutines[h].pc = "LockWait"
        /\ goroutines[h].arg = NewProviderWithKey("openai", "")

\* the registry holds what was registered last, whole, under every name
\* registered, unless a registration is in the middle of its store
RegistryHoldsLast ==
    /\ DOMAIN history.registered \subseteq DOMAIN registeredProviders
    /\ \A n \in DOMAIN registeredProviders :
          \/ n \in DOMAIN history.registered
                /\ registeredProviders[n] = history.registered[n]
          \/ \E g \in Goroutines :
                /\ goroutines[g].pc = "Storing"
                /\ Name(goroutines[g].arg) = n
                /\ registeredProviders[n] = PartialEntry

\* ListProviders returned every registered name, each once
ListIsExact ==
    \A g \in Goroutines :
        (goroutines[g].pc \in {"RUnlock", "Return"} /\ goroutines[g].op = "ListProviders")
        => LET names == goroutines[g].out.names IN
           /\ \A i, j \in 1..Len(names) : names[i] = names[j] => i = j
           /\ goroutines[g].pc = "RUnlock" =>
                 {names[i] : i \in 1..Len(names)} = DOMAIN history.registered

\* C10: after any registrations the registry holds, under each name registered,
\* the provider of the last registration under it; ListProviders returns just
\* the names registered so far, each once; no step removes a name.
C10_LastRegistrationWins ==
    /\ [](RegistryHoldsLast /\ ListIsExact)
    /\ [][DOMAIN registeredProviders \subseteq DOMAIN registeredProviders']_vars

\* C10 witness: openai was registered twice, the second registration replaced
\* the first, and ListProviders returned both registered names
C10_Witness ==
    /\ providerMu.writer = 0
    /\ DOMAIN registeredProviders = {<<"openai">>, <<"mock">>}
    /\ registeredProviders[<<"openai">>] = NewProviderWithKey("openai", "")
    /\ \E g \in Goroutines :
          /\ goroutines[g].pc = "RUnlock"
          /\ goroutines[g].op = "ListProviders"
          /\ Len(goroutines[g].out.names) = 2
    /\ \E h \in Goroutines :
          /\ goroutines[h].pc = "LockWait"
          /\ goroutines[h].arg = NewProviderWithKey("openai", "sk")

----------------------------------------------------------------------------
(* Claims about options and adapters, checked under SpecAdapter *)

\* the call has returned and reached an adapter
ReachedAdapter == direct.pc = "returned" /\ direct.out.invoked # <<>>

\* the request the adapter was handed, and the adapter
HandedRequest == direct.out.invoked[1].req
HandedProvider == direct.out.invoked[1].provider

\* the field an option owns
OwnField(opt) ==
    CASE opt.option = "WithTemperature" -> "Temperature"
      [] opt.option = "WithMaxTokens" -> "MaxTokens"
      [] opt.option = "WithTopP" -> "TopP"
      [] opt.option = "WithUser" -> "User"

\* what the last option of opts owning the field sets it to, the zero value of
\* a fresh request when none does
LastSetting(opts, field) ==
    LET owners == {i \in 1..Len(opts) : OwnField(opts[i]) = field} IN
    IF owners = {} THEN (IF field = "User" THEN "" ELSE Nil)
    ELSE LET last == CHOOSE i \in owners : \A j \in owners : j <= i IN
         IF field = "User" THEN opts[last].arg ELSE <<opts[last].arg>>

RequestFields == {"Model", "Messages", "Temperature", "MaxTokens", "TopP", "User", "Stream"}

\* C11: the request handed to the adapter is a fresh one (model, messages and
\* the stream flag of this call, every other field zero) changed by the options
\* in the order given: each option field holds the value of the last option
\* that owns it, and applying any one option to the request changes the
\* option's own field only
C11_OptionsInOrder ==
    ReachedAdapter =>
        /\ HandedRequest.Model = parseModelIdentifier(direct.modelID).model
        /\ HandedRequest.Messages = Messages
        /\ HandedRequest.Stream = (direct.op = "CompletionStream")
        /\ \A f \in {"Temperature", "MaxTokens", "TopP", "User"} :
              HandedRequest[f] = LastSetting(direct.opts, f)
        /\ \A opt \in AdapterOptionValues :
              /\ \A f \in RequestFields \ {OwnField(opt)} :
                    ApplyOption(HandedRequest, opt)[f] = HandedRequest[f]
              /\ ApplyOption(HandedRequest, opt)[OwnField(opt)]
                    = LastSetting(<<opt>>, OwnField(opt))
        /\ direct.out.applied = Len(direct.opts)

\* C11 witness: WithTemperature(7) then WithTemperature(2) reached the adapter
\* as temperature 2, every other option field untouched
C11_Witness ==
    /\ ReachedAdapter
    /\ direct.opts = <<WithTemperature(7), WithTemperature(2)>>
    /\ HandedRequest.Temperature = <<2>>
    /\ HandedRequest.MaxTokens = Nil

\* C12: a provider registered with an empty credential is registered under its
\* Name and resolves its models; every Completion and CompletionStream call on
\* it fails with the missing-credential error, with no result, before any
\* HTTP request is built or sent
C12_MissingCredential ==
    /\ \A name \in DOMAIN registeredProviders :
          registeredProviders[name].apiKey = "" =>
             /\ Name(registeredProviders[name]) = name
             /\ \E id \in AdapterModelIDs :
                   /\ getProviderForModel(registeredProviders, id).err = NoError
                   /\ getProviderForModel(registeredProviders, id).provider
                        = registeredProviders[name]
    /\ (ReachedAdapter /\ HandedProvider.apiKey = "") =>
          /\ direct.out.err = ErrAPIKeyNotSet
          /\ direct.op = "Completion" => direct.out.resp = NilResponse
          /\ direct.op = "CompletionStream" => direct.out.stream = NilStream
          /\ direct.out.built = 0
          /\ direct.out.sent = 0

\* C12 witness: the google adapter, registered without a key, was asked for a
\* stream over an exchange that would have succeeded
C12_Witness ==
    /\ ReachedAdapter
    /\ direct.op = "CompletionStream"
    /\ HandedProvider = NewProviderWithKey("google", "")
    /\ direct.net.status = "ok"
    /\ direct.out.err = ErrAPIKeyNotSet

\* the exchange failed in a way the call itself sees: the transport or the
\* status for both operations, the body for Completion, which reads it
ExchangeFailed ==
    \/ direct.net.status \in {"transport", "status"}
    \/ direct.op = "Completion" /\ direct.net.status = "parse"

UsagePopulated ==
    /\ ReachedAdapter
    /\ direct.op = "Completion"
    /\ direct.out.err = NoError
    /\ direct.net.usage # NoUsage

\* C15: in every Completion response whose usage is populated, total tokens is
\* prompt tokens plus completion tokens, also when the body omits the total or
\* reports another one
C15_UsageTotal ==
    UsagePopulated =>
        direct.out.resp.Usage.TotalTokens
            = direct.out.resp.Usage.PromptTokens + direct.out.resp.Usage.CompletionTokens

----------------------------------------------------------------------------
(* Claims about streams, checked under SpecStream *)

\* the Recv results so far, and the lines of the body by position
Results == stream.results
BodyLines == stream.body.lines
StreamOf(vendor) == stream.open /\ stream.adapter.vendor = vendor

\* the positions of the lines the k-th Recv consumed
LeftBefore(k) == IF k = 1 THEN Len(BodyLines) ELSE Results[k - 1].left
ConsumedBy(k) == (Len(BodyLines) - LeftBefore(k) + 1)..(Len(BodyLines) - Results[k].left)

\* the k-th Recv signalled end-of-sequence / returned a chunk
EndOfSequence(k) == Results[k].err = EOF /\ Results[k].resp = NilResponse
IsChunk(result) == result.err = NoError

\* every Recv after the k-th returned end-of-sequence and read nothing
FinishedAfter(k) ==
    \A j \in (k + 1)..Len(Results) :
        EndOfSequence(j) /\ Results[j].left = Results[k].left

IsData(line) == line.kind = "data"
IsDoneLine(line) == IsData(line) /\ IsDone(line.payload)
IsUndecodable(line) == IsData(line) /\ ~line.payload.json /\ ~IsDone(line.payload)

\* C14: every Completion response and every chunk of a stream carries the
\* Name() of the adapter that produced it, and the adapter is registered
\* under that name
C14_ProviderStamp ==
    /\ (direct.pc = "returned" /\ direct.out.err = NoError) =>
          /\ direct.out.resp.Provider = Name(direct.out.invoked[1].provider)
          /\ direct.out.resp.Provider \in DOMAIN registeredProviders
          /\ registeredProviders[direct.out.resp.Provider]
                = direct.out.invoked[1].provider
    /\ stream.open =>
          \A k \in 1..Len(Results) :
              IsChunk(Results[k]) =>
                 /\ Results[k].resp.Provider = Name(stream.adapter)
                 /\ Results[k].resp.Provider \in DOMAIN registeredProviders
                 /\ registeredProviders[Results[k].resp.Provider] = stream.adapter

\* C14 witness: an anthropic stream has returned two chunks
C14_Witness ==
    /\ StreamOf("anthropic")
    /\ Len(Results) >= 2
    /\ IsChunk(Results[1])
    /\ IsChunk(Results[2])
    /\ Results[2].resp.Provider = <<"anthropic">>

\* the data events with a choice among the lines consumed so far, and the
\* texts of the chunks returned so far, in order
IsChoiceEvent(line) ==
    IsData(line) /\ line.payload.json /\ Len(line.payload.value.choices) > 0
ConsumedLines == SubSeq(BodyLines, 1, Len(BodyLines) - Len(stream.s.reader.lines))
ArrivedTexts ==
    LET events == SelectSeq(ConsumedLines, IsChoiceEvent) IN
    [k \in 1..Len(events) |-> events[k].payload.value.choices[1].content]
ChunkTexts ==
    LET chunks == SelectSeq(Results, IsChunk) IN
    [k \in 1..Len(chunks) |-> chunks[k].resp.Choices[1].Content]
NonEmpty(text) == text # ""

C17_EndIsFinal ==
    stream.open =>
        \A k \in 1..Len(Results) :
            ((\E i \in ConsumedBy(k) : IsDoneLine(BodyLines[i])) /\ EndOfSequence(k))
               => FinishedAfter(k)

\* C17 witness: a google stream whose sentinel is followed by an event; two
\* Recv calls were made after the one that consumed the sentinel
C17_Witness ==
    /\ StreamOf("google")
    /\ Len(BodyLines) = 2
    /\ IsDoneLine(BodyLines[1])
    /\ IsData(BodyLines[2]) /\ BodyLines[2].payload.json
    /\ Len(Results) = 3
    /\ Results[3].left = 1

\* C18: for every vendor, a Recv that comes to a data line which is neither
\* the sentinel nor decodable stops there and returns an error that is not
\* end-of-sequence
C18_UndecodableIsError ==
    stream.open =>
        \A k \in 1..Len(Results) :
            \A i \in ConsumedBy(k) :
                IsUndecodable(BodyLines[i]) =>
                    /\ \A j \in ConsumedBy(k) : j <= i
                    /\ Results[k].err \notin {NoError, EOF}
                    /\ Results[k].resp = NilResponse

\* a delta event with a non-empty stop reason, whatever its type
HasStopReason(line) ==
    /\ IsData(line)
    /\ line.payload.json
    /\ line.payload.value.delta # Nil
    /\ line.payload.value.delta[1].stop_reason # ""

\* C19: on an anthropic stream, once a Recv has processed a delta event with a
\* non-empty stop reason, every later Recv returns end-of-sequence and reads
\* nothing
C19_StopReasonFinishes ==
    StreamOf("anthropic") =>
        \A k \in 1..Len(Results) :
            (\E i \in ConsumedBy(k) : HasStopReason(BodyLines[i])) => FinishedAfter(k)

\* an event whose first candidate has a non-empty finish reason
HasFinishReason(line) ==
    /\ IsData(line)
    /\ line.payload.json
    /\ Len(line.payload.value.candidates) > 0
    /\ line.payload.value.candidates[1].finishReason # ""

\* C20: on a google stream, after the Recv that returns the chunk of an event
\* whose first candidate has a finish reason, every Recv returns
\* end-of-sequence and no chunk comes from later events
C20_FinishReasonEnds ==
    StreamOf("google") =>
        \A k \in 1..Len(Results) :
            (IsChunk(Results[k]) /\ \E i \in ConsumedBy(k) : HasFinishReason(BodyLines[i]))
               => FinishedAfter(k)

----------------------------------------------------------------------------
(* Claims about Close, checked under SpecClose *)

\* the Close calls made on the stream, and the results of the Recv calls made
\* after the first of them
Closes == IF stream.open THEN stream.closes ELSE <<>>
RecvsAfterClose ==
    IF Closes = <<>> THEN {}
    ELSE {stream.results[i] : i \in (Closes[1].recvs + 1)..Len(stream.results)}

\* Close returns no error, and a second Close leaves the stream as the first did
CloseIsIdempotent ==
    /\ \A i \in 1..Len(Closes) : Closes[i].err = NoError
    /\ \A i \in 2..Len(Closes) : Closes[i].s = Closes[1].s

\* C21 as stated: Close on a stream that has reached end-of-sequence returns
\* no error, a second Close returns no error and leaves the stream in the state
\* the first left, and every Recv after end-of-sequence and Close reports
\* end-of-sequence
C21_CloseAfterEnd ==
    /\ CloseIsIdempotent
    /\ \A r \in RecvsAfterClose : r.resp = NilResponse /\ r.err = EOF

\* C21 amended: Close on a stream that has reached end-of-sequence returns no
\* error, a second Close returns no error and leaves the stream in the state
\* the first left; a Recv after end-of-sequence and Close reports
\* end-of-sequence when the stream was marked finished (the end sentinel or a
\* finishing event was read), and returns the closed-body read error, without a
\* chunk, when the sequence had ended because the connection ended
C21_CloseAfterMarkedEnd ==
    /\ CloseIsIdempotent
    /\ \A r \in RecvsAfterClose :
          /\ r.resp = NilResponse
          /\ r.err = IF stream.s.streamFinished THEN EOF ELSE ErrClosedBody

\* a stream ended by the sentinel, closed twice, and read again
C21_Witness ==
    /\ Len(Closes) = 2
    /\ stream.s.streamFinished
    /\ Len(stream.results) > Closes[2].recvs
    /\ stream.results[Len(stream.results)].err = EOF

----------------------------------------------------------------------------
(* Claims about cancellation, checked under SpecCancel *)

\* a call that has returned a result: a response, a stream, or a chunk
CallSucceeded ==
    /\ direct.pc = "returned"
    /\ direct.out.err = NoError
ReturnedRecvs ==
    IF stream.open THEN {stream.results[i] : i \in 1..Len(stream.results)} ELSE {}

\* a call whose token was cancelled before it had its result (from the start,
\* or while it was pending) returns an error and no response, stream or chunk
C22_NoResultAfterCancel ==
    /\ direct.pc = "returned" /\ direct.early =>
          /\ direct.out.err # NoError
          /\ direct.op = "Completion" => direct.out.resp = NilResponse
          /\ direct.op = "CompletionStream" => direct.out.stream = NilStream
    /\ \A r \in ReturnedRecvs : r.early => r.err # NoError /\ r.resp = NilResponse

\* a Completion, CompletionStream or Recv that is pending with its token
\* cancelled returns
CallPendingCancelled == direct.pc \in {"do", "read"} /\ direct.ctx = "cancelled"
RecvPendingCancelled == stream.open /\ stream.pending /\ stream.s.reader.cancelled
C22_CancelledReturns ==
    /\ CallPendingCancelled ~> direct.pc = "returned"
    /\ RecvPendingCancelled ~> ~(stream.open /\ stream.pending)

\* C22: if the caller's token is cancelled before a Completion call, or a
\* pending Recv, has produced its result, the call eventually returns, with an
\* error and never with a response or a chunk; a call whose token is cancelled
\* already when it starts returns an error and no result
C22_Cancellation == []C22_NoResultAfterCancel /\ C22_CancelledReturns

----------------------------------------------------------------------------
(* Claims about program start, checked under SpecStartup *)

\* the adapter the call of main went to
CalledAdapter == direct.out.invoked[1].provider

\* C23: a program that sets a vendor's API-key variable at the start of main
\* and then calls Completion for that vendor's model has the call made with
\* that key: the registered provider uses the credential set before the call,
\* and the call does not fail with the missing-credential error
C23_KeySetInMain ==
    /\ direct.pc = "returned"
    /\ direct.modelID[1] \in direct.set
    => /\ CalledAdapter.apiKey = direct.env[CalledAdapter.vendor]
       /\ direct.out.err # ErrAPIKeyNotSet

----------------------------------------------------------------------------
(* Claims about request translation, checked under SpecWire *)

\* a call that reached the adapter of the vendor and sent its body
Sent(vendor) ==
    /\ direct.pc = "returned"
    /\ direct.out.built = 1
    /\ direct.out.invoked[1].provider.vendor = vendor
SentRequest == direct.out.invoked[1].req

\* the models the README marks "Uses max_completion_tokens", and their dated
\* and preview variants: name, name-preview, and either with a date suffix
DocumentedCompletionTokenModels == {"o1", "o1-mini", "o3-mini", "o4-mini"}
DateSuffixes ==
    {"2024-04-09", "2024-05-13", "2024-07-18", "2024-08-06", "2024-09-12", "2024-11-20",
     "2024-12-17", "2025-01-31", "2025-02-27", "2025-04-14", "2025-04-16"}
VariantsOf(name) ==
    {name, name \o "-preview"}
    \cup {n \o "-" \o date : n \in {name, name \o "-preview"}, date \in DateSuffixes}
UsesMaxCompletionTokens(model) ==
    \E name \in DocumentedCompletionTokenModels : model \in {<<v>> : v \in VariantsOf(name)}

\* the token-limit fields a body carries
TokenFields(body) ==
    {f \in {"max_tokens", "max_completion_tokens"} : body[f] # Nil}

\* C24: the openai adapter sends the caller's max-tokens value under exactly
\* one field, max_completion_tokens for the documented models and their dated
\* or preview variants and max_tokens for every other model of the allow-list,
\* never under both, and under neither when the caller gave none; Completion
\* and CompletionStream choose the same field for the same model
C24_TokenLimitField ==
    Sent("openai") =>
       LET field == IF UsesMaxCompletionTokens(SentRequest.Model)
                    THEN "max_completion_tokens" ELSE "max_tokens" IN
       /\ SentRequest.Model \in OpenAIModelList
       /\ IF SentRequest.MaxTokens = Nil
          THEN TokenFields(direct.wire) = {}
          ELSE /\ TokenFields(direct.wire) = {field}
               /\ direct.wire[field] = SentRequest.MaxTokens
       /\ TokenFields(OpenAIRequest([SentRequest EXCEPT !.Stream = ~@]))
             = TokenFields(direct.wire)

\* a stream opened on a dated preview model with a max-tokens option
C24_Witness ==
    /\ Sent("openai")
    /\ direct.op = "CompletionStream"
    /\ SentRequest.Model = <<"o1-preview-2024-09-12">>
    /\ direct.wire.max_completion_tokens = Ptr(100)
    /\ direct.wire.max_tokens = Nil

\* the messages of the call that are not system messages, and the contents of
\* its system messages, in the order of the call
NonSystemMessages == SelectSeq(direct.messages, LAMBDA msg : msg.Role # "system")
SystemTexts ==
    LET systems == SelectSeq(direct.messages, LAMBDA msg : msg.Role = "system") IN
    [i \in 1..Len(systems) |-> systems[i].Content]

\* entries holds one entry for each message, in order, with the message's
\* content and with the role assistant under the name given, every other
\* role as user
Translates(entries, messages, assistant, RoleOf(_), ContentOf(_)) ==
    /\ Len(entries) = Len(messages)
    /\ \A i \in 1..Len(messages) :
          /\ ContentOf(entries[i]) = messages[i].Content
          /\ RoleOf(entries[i]) =
                IF messages[i].Role = "assistant" THEN assistant ELSE "user"

\* the entries of the google body after the leading entry of the system text
GeminiConversation ==
    IF SystemTexts # <<>> /\ SystemTexts[1] # ""
    THEN Tail(direct.wire.contents) ELSE direct.wire.contents

----------------------------------------------------------------------------
(* Claims about responses, checked under SpecAdapter *)

\* C25: whenever Completion on a model of the openai allow-list returns no
\* error, the response is not nil and has at least one choice, so that the
\* first choice's message can be read
C25_FirstChoiceReadable ==
    /\ ReachedAdapter
    /\ direct.op = "Completion"
    /\ HandedProvider.vendor = "openai"
    /\ HandedRequest.Model \in OpenAIModelList
    /\ direct.out.err = NoError
    => /\ direct.out.resp # NilResponse
       /\ direct.out.resp.Choices >= 1

----------------------------------------------------------------------------
(* Claims about SupportsModel, checked under SpecSupports *)

\* every answer given for a provider and a model name is membership in the
\* allow-list of that adapter, whatever was registered, completed or streamed
\* before the question
AnswersAreMembership ==
    \A a \in history.answers : a.ok = (a.model \in modelList(a.name[1]))

\* a step that gives an answer changes neither the registry, and the providers
\* in it, nor the number of requests sent
AnswerLeavesAllElse ==
    history.answers' # history.answers =>
        /\ registeredProviders' = registeredProviders
        /\ history.sent' = history.sent
        /\ direct' = direct

\* C26: SupportsModel of a registered provider is a membership test against
\* the adapter's fixed allow-list: the same model name gets the same answer
\* across every sequence of registrations, completions and streams, and a
\* SupportsModel call changes neither the registry nor the provider and sends
\* nothing
C26_SupportsModelPure == []AnswersAreMembership /\ [][AnswerLeavesAllElse]_vars

\* openai has been registered again without a key, requests have been sent,
\* and openai has answered yes for one name and no for another
C26_Witness ==
    /\ registeredProviders[<<"openai">>].apiKey = ""
    /\ history.sent > 0
    /\ [name |-> <<"openai">>, model |-> <<"gpt-4o">>, ok |-> TRUE] \in history.answers
    /\ [name |-> <<"openai">>, model |-> <<"x">>, ok |-> FALSE] \in history.answers

----------------------------------------------------------------------------
(* Claims about the line reader, checked under SpecReader *)

\* the event lines among the lines returned: those with the data prefix,
\* which Recv decodes into chunks
EventLines(results) ==
    SelectSeq(results, LAMBDA r : r.err = NoError /\ r.line # <<>> /\ r.line[1] = "d")

\* C27: however the connection cuts the byte stream into reads, also in the
\* middle of a line, ReadLine returns the same sequence of lines as when the
\* stream arrives in a single read, and so Recv the same chunks: no bytes of a
\* line are lost when the line spans two reads
C27_ReadsDoNotMatter ==
    /\ stream.splitLines = stream.singleLines
    /\ EventLines(stream.splitLines) = EventLines(stream.singleLines)

----------------------------------------------------------------------------
(* Claims about the id of anthropic chunks, checked under SpecStartEvents *)

\* a message_start event that carries a message, and a content block event
IsStartEvent(line) ==
    /\ IsData(line)
    /\ line.payload.json
    /\ line.payload.value.type = "message_start"
    /\ line.payload.value.message # ""
IsContentEvent(line) ==
    /\ IsData(line)
    /\ line.payload.json
    /\ line.payload.value.type \in {"content_block_start", "content_block_delta"}

\* the positions of the start events read by the end of the k-th Recv
StartsReadBy(k) ==
    {i \in 1..(Len(BodyLines) - Results[k].left) : IsStartEvent(BodyLines[i])}
LatestStartBy(k) ==
    CHOOSE i \in StartsReadBy(k) : \A j \in StartsReadBy(k) : j <= i

\* the last line the k-th Recv consumed is a content block event: the chunk
\* was made from it and from no start event
ChunkFromContentEvent(k) ==
    /\ ConsumedBy(k) # {}
    /\ IsContentEvent(BodyLines[Len(BodyLines) - Results[k].left])

----------------------------------------------------------------------------
(* Claims about completions in flight, checked under SpecInFlight *)

InFlight(g) == goroutines[g].pc = "InFlight"
HoldsLock(g) == g \in providerMu.readers \/ providerMu.writer = g
Resolving(g) == goroutines[g].pc \in {"RLock", "Read", "RUnlock"}
RegisterPending ==
    goroutines[Registrar].pc \in {"Lock", "LockWait", "Store", "Storing", "Unlock"}

\* a goroutine whose adapter call is in flight holds the lock in no mode
NoLockAcrossAdapterCall == \A g \in Completers : InFlight(g) => ~HoldsLock(g)

\* a RegisterProvider call that has been made acquires the lock and returns,
\* whatever is in flight
RegisterCompletes ==
    /\ (goroutines[Registrar].pc = "Lock") ~> (providerMu.writer = Registrar)
    /\ RegisterPending ~> (goroutines[Registrar].pc = "idle")

\* a resolution that has been started returns to its caller, whatever is in
\* flight and whatever is being registered
ResolutionCompletes ==
    \A g \in Completers : Resolving(g) ~> (goroutines[g].pc = "Return")

\* C30: the registry lock is never held across an adapter's Completion or
\* CompletionStream call, so that while completions are in flight, also ones
\* that never return, a RegisterProvider call acquires the lock and completes
\* and a resolution running at the same time completes
C30_LockNotHeldInFlight ==
    /\ []NoLockAcrossAdapterCall
    /\ RegisterCompletes
    /\ ResolutionCompletes

\* C30 witness: RegisterProvider holds the write lock and has stored its
\* provider while one completion is in flight and another goroutine's
\* resolution waits for the read lock
C30_Witness ==
    /\ goroutines[Registrar].pc = "Unlock"
    /\ providerMu.writer = Registrar
    /\ \E g \in Completers, h \in Completers :
          /\ InFlight(g)
          /\ goroutines[h].pc = "RLock"

====
